---- MODULE Spec2Model ----
(***************************************************************************)
(* OmniBridge: a binary protocol gateway.  The model covers the Signature  *)
(* Dispatcher (internal/parser/dispatcher.go), the Parser Manager, the     *)
(* Execution Engine (internal/parser/engine.go), the Discovery service     *)
(* (internal/parser/discovery.go) and the TCP frame handler                *)
(* (internal/parser/server.go).                                            *)
(*                                                                         *)
(* Texts (hex strings, protocol IDs, parser sources, oracle responses) are *)
(* sequences of tokens; a byte is a number 0..255.                         *)
(***************************************************************************)
EXTENDS Integers, Sequences, FiniteSets, TLC

VARIABLES
    routes,     \* Dispatcher.routes : hex signature -> protocolID
    root,       \* Dispatcher.root   : the trie, node path -> protocolID carried
    bound,      \* history: signature -> protocolID of the last Bind call for it
    cache,      \* ParserManager.cache : protocolID -> source
    files,      \* storage/<protocolID>.go : file name -> source
    manifest,   \* storage/manifest.json : whether it exists, and its members
    ecache,     \* Engine.cache : key -> compiled parser (named by its source)
    last,       \* what the last direct API call returned
    calls,      \* number of direct Bind and RegisterParser calls made so far
    conns,      \* per connection: the position and locals of handleConnection
    ops,        \* per thread: the position and locals of requestAndRegister
    inflight,   \* the Coordinator's set of signatures being discovered
    hist,       \* history: signatures the Coordinator bound, whether a manifest
                \* write failed, signatures whose frame was dropped
    config,     \* DiscoveryService.Config
    emu,        \* Engine.mu : the goroutines holding the lock
    execs,      \* per goroutine: the position and locals of ExecuteWithContext
    dmu,        \* Dispatcher.mu : the writer and the readers holding the lock
    dops,       \* per goroutine: the position and locals of Bind or Ingest
    wr,         \* the ioutil.WriteFile of a RegisterParser taken step by step
    seeds,      \* the seed directory: whether it can be read, file name -> content
    lk,         \* the three mutexes, and per goroutine the call it is in
    boot        \* main before ListenAndServe: its position and the two maps it ranges over

vars == <<routes, root, bound, cache, files, manifest, ecache, last, calls,
          conns, ops, inflight, hist, config, emu, execs, dmu, dops, wr,
          seeds, lk, boot>>

dispatcherVars == <<routes, root, bound>>
managerVars    == <<cache, files, manifest>>
serverVars     == <<conns, ops, inflight, hist>>
apiVars        == <<last, calls>>
engineVars     == <<emu, execs>>
stepVars       == <<dmu, dops, wr, seeds, lk, boot>>

-----------------------------------------------------------------------------
(* Bounds of the model *)

\* longest signature and longest frame, in bytes
MaxSigLen == 2
MaxFrameLen == 2
\* direct Bind and RegisterParser calls in one behaviour of SpecAPI
MaxCalls == 3

\* the byte values frames and signatures are built from (0x01, 0xAA)
Bytes == {1, 170}

RECURSIVE SeqsUpTo(_, _)
SeqsUpTo(S, n) ==
    IF n = 0 THEN {<<>>}
    ELSE LET shorter == SeqsUpTo(S, n - 1)
         IN  shorter \cup {Append(s, x) : s \in shorter, x \in S}

Frames == SeqsUpTo(Bytes, MaxFrameLen)
Signatures == SeqsUpTo(Bytes, MaxSigLen) \ {<<>>}

IsPrefix(s, t) == Len(s) <= Len(t) /\ SubSeq(t, 1, Len(s)) = s

Min(S) == CHOOSE x \in S : \A y \in S : x <= y
Max(S) == CHOOSE x \in S : \A y \in S : x >= y

-----------------------------------------------------------------------------
(* Hex text *)

HexDigits == <<"0", "1", "2", "3", "4", "5", "6", "7",
               "8", "9", "A", "B", "C", "D", "E", "F">>
LowerHexDigits == <<"0", "1", "2", "3", "4", "5", "6", "7",
                    "8", "9", "a", "b", "c", "d", "e", "f">>

IsHexDigit(c) == \E i \in 1..16 : HexDigits[i] = c \/ LowerHexDigits[i] = c

DigitVal(c) == (CHOOSE i \in 1..16 : HexDigits[i] = c \/ LowerHexDigits[i] = c) - 1

\* fmt.Sprintf("%X", b) for one byte: two uppercase digits
HexOfByte(b) == <<HexDigits[(b \div 16) + 1], HexDigits[(b % 16) + 1]>>

\* fmt.Sprintf("%X", signature)
RECURSIVE HexOf(_)
HexOf(sig) ==
    IF sig = <<>> THEN <<>> ELSE HexOfByte(Head(sig)) \o HexOf(Tail(sig))

\* hex.DecodeString: the bytes decoded before the first invalid digit (the
\* callers discard the error); an odd length is an error after the full pairs
RECURSIVE DecodeString(_)
DecodeString(h) ==
    IF Len(h) < 2 THEN <<>>
    ELSE IF ~IsHexDigit(h[1]) \/ ~IsHexDigit(h[2]) THEN <<>>
    ELSE <<DigitVal(h[1]) * 16 + DigitVal(h[2])>> \o DecodeString(SubSeq(h, 3, Len(h)))

hexToBytes(h) ==
    IF Len(h) % 2 # 0 THEN DecodeString(<<"0">> \o h) ELSE DecodeString(h)

-----------------------------------------------------------------------------
(* Protocol IDs *)

EmptyID == <<>>
NamedIDs == {<<"OBDII_RPM">>, <<"Engine">>}

\* fmt.Sprintf("auto_proto_0x%X", finalSig)
AutoID(sig) == <<"auto_proto_0x">> \o HexOf(sig)

-----------------------------------------------------------------------------
(* Parser sources.  A source is a sequence of tokens: comments, the package *)
(* clause, imports, function headers, one body per function, closing braces, *)
(* and whatever prose an oracle wraps around the code.                       *)

NoSrc == <<>>
PackageDynamic == "package dynamic"
SignatureComment == "// Signature:"
FuncParse == "func Parse("
FuncHeaders == {FuncParse, "func ParseXYZ(", "func helper("}
Bodies == {"return ok", "return nil", "data[1]", "data[2]", "for {}"}
Imports == {"import fmt", "import os"}
\* the packages of the allow-list that the model's sources import
AllowedImports == {"import fmt"}

IsComment(src, i) ==
    \/ src[i] = SignatureComment
    \/ src[i] = "//go:build ignore"
    \/ /\ IsHexDigit(src[i])
       /\ \E j \in 1..(i - 1) :
            /\ src[j] = SignatureComment
            /\ \A k \in (j + 1)..(i - 1) : IsHexDigit(src[k])

CodeIndexes(src) == {i \in 1..Len(src) : ~IsComment(src, i)}

\* interp.Eval(goCode): the source is a Go file of package dynamic that uses
\* only allow-listed packages and declares no function twice
EvalOK(src) ==
    LET code == CodeIndexes(src) IN
    /\ code # {}
    /\ \A i \in code :
         /\ src[i] \in {PackageDynamic, "}"} \cup FuncHeaders \cup Bodies \cup Imports
         /\ (src[i] = PackageDynamic) <=> (\A j \in code : i <= j)
         /\ src[i] \in Imports => src[i] \in AllowedImports
         /\ src[i] \in FuncHeaders =>
              /\ i + 2 <= Len(src) /\ src[i + 1] \in Bodies /\ src[i + 2] = "}"
              /\ \A j \in code : src[j] = src[i] => j = i
         /\ src[i] \in Bodies => i > 1 /\ src[i - 1] \in FuncHeaders
         /\ src[i] = "}" => i > 2 /\ src[i - 1] \in Bodies

\* interp.Eval("dynamic.Parse"): the entry point exists
HasParse(src) == \E i \in 1..Len(src) : src[i] = FuncParse

ParseBody(src) == src[(CHOOSE i \in 1..Len(src) : src[i] = FuncParse) + 1]

NoErr == "nil"

\* Engine.compile: the error, or NoErr when the source yields a callable
compile(goCode) ==
    IF ~EvalOK(goCode) THEN "COMPILE_ERROR"
    ELSE IF ~HasParse(goCode) THEN "RECOVERY_ERROR"
    ELSE NoErr

\* the worker goroutine and the select of ExecuteWithContext: what calling the
\* parser compiled from fn on rawData gives
call(fn, rawData) ==
    LET body == ParseBody(fn) IN
    IF body = "for {}" THEN [res |-> "nil", err |-> "EXECUTION_TIMEOUT"]
    ELSE IF body = "data[1]" /\ Len(rawData) < 2 THEN [res |-> "nil", err |-> "PANIC"]
    ELSE IF body = "data[2]" /\ Len(rawData) < 3 THEN [res |-> "nil", err |-> "PANIC"]
    ELSE IF body = "return nil" THEN [res |-> "nil", err |-> NoErr]
    ELSE [res |-> "map", err |-> NoErr]

\* Engine.ExecuteWithContext(ctx, id, rawData, goCode) on Engine.cache c:
\* the result, the parser that ran, and the cache afterwards
ExecuteWithContext(c, id, rawData, goCode) ==
    IF id \in DOMAIN c
    THEN [res |-> call(c[id], rawData).res, err |-> call(c[id], rawData).err,
          ran |-> c[id], cache |-> c]
    ELSE IF compile(goCode) # NoErr
    THEN [res |-> "nil", err |-> compile(goCode), ran |-> NoSrc, cache |-> c]
    ELSE [res |-> call(goCode, rawData).res, err |-> call(goCode, rawData).err,
          ran |-> goCode,
          cache |-> [k \in DOMAIN c \cup {id} |-> IF k = id THEN goCode ELSE c[k]]]

\* Engine.Execute: ExecuteWithContext under the default deadline
Execute(c, id, rawData, goCode) == ExecuteWithContext(c, id, rawData, goCode)

\* Engine.ClearCache
ClearCache(c, id) == [k \in DOMAIN c \ {id} |-> c[k]]

-----------------------------------------------------------------------------
(* Parser Manager *)

\* ParserManager.GetParserCode
GetParserCode(protocolID) ==
    IF protocolID \in DOMAIN cache
    THEN [code |-> cache[protocolID], exists |-> TRUE]
    ELSE [code |-> NoSrc, exists |-> FALSE]

\* ParserManager.ParseData: the Engine runs the cached source, the compiled
\* parser being cached under the protocolID
ParseData(protocolID, data) ==
    IF protocolID \notin DOMAIN cache
    THEN [res |-> "nil", err |-> "no parser found", ran |-> NoSrc, cache |-> ecache]
    ELSE Execute(ecache, protocolID, data, cache[protocolID])

Extensions == {".go", ".json"}
GoExt == ".go"
ManifestName == <<"manifest", ".json">>

\* protocolID+".go", the name RegisterParser writes in the storage directory
FileName(protocolID) == protocolID \o <<GoExt>>

\* filepath.Ext(file.Name())
Ext(name) ==
    IF name # <<>> /\ name[Len(name)] \in Extensions THEN name[Len(name)] ELSE ""

\* the whole name taken as the stem
WholeName(name) == name

\* file.Name()[:len(file.Name())-3]
Stem(name) == SubSeq(name, 1, Len(name) - 1)

\* manifest.json before the first SaveManifest
NoFile == [exists |-> FALSE, data |-> <<>>]

\* the place of a character of a hex key in byte order
CharOrd(c) ==
    CHOOSE i \in 1..22 : (HexDigits \o SubSeq(LowerHexDigits, 11, 16))[i] = c

\* a < b as encoding/json orders the keys of a map
RECURSIVE StringLess(_, _)
StringLess(a, b) ==
    IF b = <<>> THEN FALSE
    ELSE IF a = <<>> THEN TRUE
    ELSE IF Head(a) # Head(b) THEN CharOrd(Head(a)) < CharOrd(Head(b))
    ELSE StringLess(Tail(a), Tail(b))

\* json.MarshalIndent(Manifest{Bindings: bindings}): the members of the
\* "bindings" object, sorted by key
RECURSIVE MarshalManifest(_)
MarshalManifest(bindings) ==
    IF DOMAIN bindings = {} THEN <<>>
    ELSE LET k == CHOOSE x \in DOMAIN bindings :
                      \A y \in DOMAIN bindings \ {x} : StringLess(x, y)
         IN  <<<<k, bindings[k]>>>> \o
               MarshalManifest([h \in DOMAIN bindings \ {k} |-> bindings[h]])

\* a decoder that keeps one byte of each key
UnmarshalManifestByteKeys(data) ==
    LET keys == {SubSeq(data[i][1], 1, 2) : i \in 1..Len(data)}
    IN  [k \in keys |->
           data[Max({i \in 1..Len(data) : SubSeq(data[i][1], 1, 2) = k})][2]]

\* json.Unmarshal(data, &manifest) and manifest.Bindings: a member per key, the
\* last one when a key is repeated
UnmarshalManifest(data) ==
    LET keys == {data[i][1] : i \in 1..Len(data)}
    IN  [k \in keys |-> data[Max({i \in 1..Len(data) : data[i][1] = k})][2]]

\* the file ParserManager.SaveManifest(bindings) writes
ManifestFile(bindings) == [exists |-> TRUE, data |-> MarshalManifest(bindings)]

\* ParserManager.LoadManifest on the file m
LoadManifest(m) == IF ~m.exists THEN <<>> ELSE UnmarshalManifest(m.data)

\* ioutil.ReadDir(m.storagePath): the parser files and manifest.json
ReadDir(f, m) ==
    [n \in DOMAIN f \cup (IF m.exists THEN {ManifestName} ELSE {}) |->
       IF n \in DOMAIN f THEN f[n] ELSE m.data]

\* m.cache of a new Manager after LoadSavedParsers read the directory dir
LoadedCache(dir) ==
    LET goFiles == {n \in DOMAIN dir : Ext(n) = GoExt}
    IN  [id \in {Stem(n) : n \in goFiles} |->
           dir[CHOOSE n \in goFiles : Stem(n) = id]]

\* the Manager's source cache after RegisterParser stored code
RegisterCache(c, protocolID, code) ==
    [k \in DOMAIN c \cup {protocolID} |-> IF k = protocolID THEN code ELSE c[k]]

\* the Engine's cache after RegisterParser
RegisterEngineCache(c, protocolID) == c

\* a RegisterParser that writes the file and leaves the cache as it is
RegisterParserFileOnly(protocolID, code, written) ==
    /\ files' = IF written THEN RegisterCache(files, FileName(protocolID), code) ELSE files
    /\ UNCHANGED <<cache, ecache>>

\* a RegisterParser that fills the cache before it looks at the write's error
RegisterParserCachesFirst(protocolID, code, written) ==
    /\ files' = IF written THEN RegisterCache(files, FileName(protocolID), code) ELSE files
    /\ cache' = RegisterCache(cache, protocolID, code)
    /\ ecache' = RegisterEngineCache(ecache, protocolID)

\* ParserManager.RegisterParser; written tells whether ioutil.WriteFile succeeded
RegisterParser(protocolID, code, written) ==
    IF written
    THEN /\ files' = RegisterCache(files, FileName(protocolID), code)
         /\ cache' = RegisterCache(cache, protocolID, code)
         /\ ecache' = RegisterEngineCache(ecache, protocolID)
    ELSE UNCHANGED <<files, cache, ecache>>

-----------------------------------------------------------------------------
(* Signature Dispatcher *)

Prefixes(sig) == {SubSeq(sig, 1, n) : n \in 0..Len(sig)}

\* an insertion that leaves a node's protocolID alone once it has one
BindTrieKeepsFirst(trie, signature, protocolID) ==
    [p \in DOMAIN trie \cup Prefixes(signature) |->
        IF p \in DOMAIN trie /\ trie[p] # EmptyID THEN trie[p]
        ELSE IF p = signature THEN protocolID
        ELSE EmptyID]

\* the trie after Bind inserted signature
BindTrie(trie, signature, protocolID) ==
    [p \in DOMAIN trie \cup Prefixes(signature) |->
        IF p = signature THEN protocolID
        ELSE IF p \in DOMAIN trie THEN trie[p] ELSE EmptyID]

\* d.routes[hexSig] = protocolID
BindRoutes(r, signature, protocolID) ==
    [h \in DOMAIN r \cup {HexOf(signature)} |->
        IF h = HexOf(signature) THEN protocolID ELSE r[h]]

\* Dispatcher.Bind
Bind(signature, protocolID) ==
    /\ routes' = BindRoutes(routes, signature, protocolID)
    /\ root' = BindTrie(root, signature, protocolID)
    /\ bound' = [s \in DOMAIN bound \cup {signature} |->
                    IF s = signature THEN protocolID ELSE bound[s]]

\* Dispatcher.GetBindings
GetBindings == routes

\* a walk that stops at the first node carrying a protocolID
RECURSIVE WalkFirstMatch(_, _, _, _)
WalkFirstMatch(trie, data, i, matched) ==
    IF i > Len(data) \/ SubSeq(data, 1, i) \notin DOMAIN trie \/ matched # EmptyID
    THEN matched
    ELSE WalkFirstMatch(trie, data, i + 1, trie[SubSeq(data, 1, i)])

\* the loop of Dispatcher.Ingest from byte i on, standing at the node of the
\* first i-1 bytes with matched the last protocolID seen
RECURSIVE Walk(_, _, _, _)
Walk(trie, data, i, matched) ==
    IF i > Len(data) \/ SubSeq(data, 1, i) \notin DOMAIN trie THEN matched
    ELSE Walk(trie, data, i + 1,
              IF trie[SubSeq(data, 1, i)] # EmptyID
              THEN trie[SubSeq(data, 1, i)] ELSE matched)

\* the protocolID Dispatcher.Ingest matches data to (EmptyID: none)
MatchedProto(data) == Walk(root, data, 1, EmptyID)

\* an Ingest that gives the protocolID only when parsing succeeded
IngestDropsProto(data) ==
    IF Len(data) = 0 \/ MatchedProto(data) = EmptyID
    THEN [res |-> "nil", proto |-> EmptyID, err |-> "unknown protocol signature",
          ran |-> NoSrc, cache |-> ecache]
    ELSE LET r == ParseData(MatchedProto(data), data)
         IN  [res |-> r.res, proto |-> IF r.err = NoErr THEN MatchedProto(data) ELSE EmptyID,
              err |-> r.err, ran |-> r.ran, cache |-> r.cache]

\* Dispatcher.Ingest: (result, protocolID, error), with the parser that ran and
\* the Engine's cache afterwards
Ingest(data) ==
    IF Len(data) = 0
    THEN [res |-> "nil", proto |-> EmptyID, err |-> "empty payload",
          ran |-> NoSrc, cache |-> ecache]
    ELSE IF MatchedProto(data) = EmptyID
    THEN [res |-> "nil", proto |-> EmptyID, err |-> "unknown protocol signature",
          ran |-> NoSrc, cache |-> ecache]
    ELSE LET r == ParseData(MatchedProto(data), data)
         IN  [res |-> r.res, proto |-> MatchedProto(data), err |-> r.err,
              ran |-> r.ran, cache |-> r.cache]

-----------------------------------------------------------------------------
(* Direct use of the components: Bind, RegisterParser and Ingest called one *)
(* after the other, as the package's tests do.                              *)

SrcOK == <<PackageDynamic, FuncParse, "return ok", "}">>
SrcIndex == <<PackageDynamic, FuncParse, "data[1]", "}">>
SrcImportOs == <<PackageDynamic, "import os", FuncParse, "return ok", "}">>
APISources == {SrcOK, SrcIndex, SrcImportOs}

\* the frames the direct calls ingest
APIFrames == {<<>>, <<1>>, <<1, 170>>, <<170>>}

NoCall == [op |-> "none", frame |-> <<>>, id |-> EmptyID, code |-> NoSrc,
           res |-> "nil", err |-> NoErr, ran |-> NoSrc, bindings |-> <<>>,
           prev |-> EmptyID]

\* NewParserManager, NewEngine, NewDispatcher
InitComponents ==
    /\ routes = <<>>
    /\ root = [p \in {<<>>} |-> EmptyID]
    /\ bound = <<>>
    /\ cache = <<>>
    /\ files = <<>>
    /\ manifest = NoFile
    /\ ecache = <<>>

APIBind(signature, protocolID) ==
    /\ calls < MaxCalls
    /\ Bind(signature, protocolID)
    /\ calls' = calls + 1
    /\ last' = [NoCall EXCEPT !.op = "Bind", !.frame = signature, !.id = protocolID,
                              !.prev = IF HexOf(signature) \in DOMAIN GetBindings
                                       THEN GetBindings[HexOf(signature)] ELSE EmptyID]
    /\ UNCHANGED <<managerVars, ecache, serverVars, config, engineVars, stepVars>>

APIRegisterParser(protocolID, code, written) ==
    /\ calls < MaxCalls
    /\ RegisterParser(protocolID, code, written)
    /\ calls' = calls + 1
    /\ last' = [NoCall EXCEPT !.op = "RegisterParser", !.id = protocolID,
                              !.code = code,
                              !.err = IF written THEN NoErr ELSE "write failed"]
    /\ UNCHANGED <<dispatcherVars, manifest, serverVars, config, engineVars, stepVars>>

\* Ingest; last.code is what GetParserCode gives for the matched protocolID
APIIngest(data) ==
    /\ LET r == Ingest(data) IN
         /\ ecache' = r.cache
         /\ last' = [op |-> "Ingest", frame |-> data, id |-> r.proto,
                     code |-> GetParserCode(r.proto).code,
                     res |-> r.res, err |-> r.err, ran |-> r.ran, bindings |-> <<>>,
                     prev |-> EmptyID]
    /\ UNCHANGED calls
    /\ UNCHANGED <<dispatcherVars, managerVars, serverVars, config, engineVars, stepVars>>

-----------------------------------------------------------------------------
(* Discovery service *)

\* DiscoveryConfig.MaxRetries as main configures the service: left unset
MaxRetries == 0

\* maxRetries of requestAndRegister
maxRetries == IF config.MaxRetries <= 0 THEN 1 ELSE config.MaxRetries

\* what the oracle may answer
RespPlain == <<"Here is the code:", PackageDynamic, "func ParseXYZ(", "return ok",
               "}", "[code fence]">>
RespSigned == <<SignatureComment, "0", "1", "a", "a", PackageDynamic, FuncParse,
                "return ok", "}">>
RespFaulty == <<PackageDynamic, FuncParse, "data[1]", "}">>
Responses == {RespPlain, RespSigned}

IndexesOf(tok, src) == {i \in 1..Len(src) : src[i] = tok}

\* reSig.FindStringSubmatch(generatedCode)[1]: the hex digits of the first
\* signature comment (<<>>: no match)
SignatureMatch(generatedCode) ==
    LET at == {i \in IndexesOf(SignatureComment, generatedCode) :
                 i < Len(generatedCode) /\ IsHexDigit(generatedCode[i + 1])}
    IN  IF at = {} THEN <<>>
        ELSE LET i == Min(at)
                 stop == Min({j \in (i + 1)..(Len(generatedCode) + 1) :
                                j > Len(generatedCode) \/ ~IsHexDigit(generatedCode[j])})
             IN  SubSeq(generatedCode, i + 1, stop - 1)

\* finalSig of requestAndRegister
FinalSig(generatedCode, signature) ==
    LET hexStr == SignatureMatch(generatedCode)
        sigBytes == hexToBytes(hexStr)
    IN  IF hexStr # <<>> /\ Len(sigBytes) > 0 THEN sigBytes ELSE signature

\* protocolID of requestAndRegister
ProtocolIDFor(finalSig, protocolIDArg) == AutoID(finalSig)

sanitizeAiCode(input) ==
    LET s1 == IF IndexesOf(PackageDynamic, input) # {}
              THEN SubSeq(input, Min(IndexesOf(PackageDynamic, input)), Len(input))
              ELSE input
        s2 == [i \in 1..Len(s1) |-> IF s1[i] \in FuncHeaders THEN FuncParse ELSE s1[i]]
        s3 == IF IndexesOf("}", s2) # {}
              THEN SubSeq(s2, 1, Max(IndexesOf("}", s2)))
              ELSE s2
    IN  IF IndexesOf(PackageDynamic, s3) = {} THEN <<PackageDynamic>> \o s3 ELSE s3


\* signature as DiscoverNewProtocol and RepairParser pass it on: the caller's,
\* or the first byte of the sample when the caller gave none
CallerSignature(rawSample, signature) ==
    IF Len(signature) = 0 THEN <<rawSample[1]>> ELSE signature

\* the Coordinator's in-flight set: StartDiscovery marks the signature and
\* tells whether this call marked it; FinishDiscovery removes the mark
StartDiscovery(sig) == sig \notin inflight
FinishDiscovery(sig) == inflight \ {sig}

-----------------------------------------------------------------------------
(* Threads: one handleConnection per connection, and the goroutines it      *)
(* launches for discovery.  An operation (DiscoverNewProtocol, RepairParser) *)
(* runs on the thread that called it.                                        *)

Conns == {"c1", "c2"}
Workers == {"g1", "g2"}
\* a goroutine that calls the service directly (the MCP tool handler, a test)
Callers == {"m1"}
Threads == Conns \cup Workers \cup Callers

\* the frames the connections deliver
ServerFrames == {<<1>>, <<1, 170>>, <<170>>}

\* frames read over all connections in one behaviour
MaxFrames == 2

IdleOp == [pc |-> "idle", kind |-> "none", raw |-> <<>>, sigArg |-> <<>>, sig |-> <<>>,
           idArg |-> EmptyID, faulty |-> NoSrc, attempts |-> 0, code |-> NoSrc,
           finalSig |-> <<>>, protocolID |-> EmptyID, snapshot |-> <<>>,
           opBound |-> FALSE]

IdleConn == [pc |-> "read", raw |-> <<>>, proto |-> EmptyID, err |-> NoErr,
             ran |-> NoSrc, retried |-> FALSE, fixed |-> NoSrc, n |-> 0,
             reply |-> "none"]

Active(t) == ops[t].pc \notin {"idle", "ok", "failed", "fault"}
Returned(t) == ops[t].pc \in {"ok", "failed"}

\* rawSample[0] of an empty sample: index out of range
IndexFault(rawSample, signature) == Len(signature) = 0 /\ Len(rawSample) = 0

\* where the operation stands before requestAndRegister: DiscoverNewProtocol
\* takes the default signature before it reads the prompt, RepairParser after
StartPc(kind, rawSample, signature, promptRead) ==
    IF kind = "discover"
    THEN IF IndexFault(rawSample, signature) THEN "fault"
         ELSE IF promptRead THEN "call" ELSE "failed"
    ELSE IF ~promptRead THEN "failed"
         ELSE IF IndexFault(rawSample, signature) THEN "fault" ELSE "call"

\* DiscoverNewProtocol / RepairParser up to the call of requestAndRegister:
\* promptRead tells whether agents/system_prompt.md could be read
StartOp(t, kind, rawSample, signature, protocolID, faultyCode, promptRead) ==
    ops' = [ops EXCEPT ![t] =
              [IdleOp EXCEPT !.pc = StartPc(kind, rawSample, signature, promptRead),
                             !.kind = kind, !.raw = rawSample, !.sigArg = signature,
                             !.sig = IF IndexFault(rawSample, signature) THEN <<>>
                                     ELSE CallerSignature(rawSample, signature),
                             !.idArg = protocolID, !.faulty = faultyCode]]

\* a loop that gives up at the first failed call
OracleCallOnce(t, answered, generatedCode) ==
    /\ ops[t].pc = "call"
    /\ ops' = [ops EXCEPT ![t] =
                 IF answered
                 THEN [@ EXCEPT !.pc = "register", !.code = generatedCode,
                                !.attempts = @ + 1]
                 ELSE [@ EXCEPT !.pc = "failed", !.attempts = @ + 1]]
    /\ UNCHANGED <<dispatcherVars, managerVars, ecache, apiVars, config, engineVars, stepVars,
                   conns, inflight, hist>>

\* one turn of the retry loop of requestAndRegister: the oracle answers with
\* generatedCode, or the call fails
OracleCall(t, answered, generatedCode) ==
    /\ ops[t].pc = "call"
    /\ ops' = [ops EXCEPT ![t] =
                 IF answered
                 THEN [@ EXCEPT !.pc = "register", !.code = generatedCode,
                                !.attempts = @ + 1]
                 ELSE IF @.attempts < maxRetries - 1
                 THEN [@ EXCEPT !.attempts = @ + 1]
                 ELSE [@ EXCEPT !.pc = "failed", !.attempts = @ + 1]]
    /\ UNCHANGED <<dispatcherVars, managerVars, ecache, apiVars, config, engineVars, stepVars, conns, inflight, hist>>

\* a requestAndRegister that binds the signature before RegisterParser returned
RegisterBindsFirst(t, written) ==
    /\ ops[t].pc = "register"
    /\ LET finalSig == FinalSig(ops[t].code, ops[t].sig)
           protocolID == ProtocolIDFor(finalSig, ops[t].idArg)
           cleanCode == sanitizeAiCode(ops[t].code)
       IN  IF Len(finalSig) = 0
           THEN /\ ops' = [ops EXCEPT ![t].pc = "failed"]
                /\ UNCHANGED <<files, cache, ecache, dispatcherVars>>
           ELSE /\ Bind(finalSig, protocolID)
                /\ RegisterParser(protocolID, cleanCode, written)
                /\ ops' = [ops EXCEPT ![t] =
                             [@ EXCEPT !.pc = IF written THEN "bind" ELSE "failed",
                                       !.finalSig = finalSig,
                                       !.protocolID = protocolID]]
    /\ UNCHANGED <<manifest, apiVars, config, engineVars, stepVars, conns, inflight, hist>>

\* requestAndRegister from the signature extraction to RegisterParser
Register(t, written) ==
    /\ ops[t].pc = "register"
    /\ LET finalSig == FinalSig(ops[t].code, ops[t].sig)
           protocolID == ProtocolIDFor(finalSig, ops[t].idArg)
           cleanCode == sanitizeAiCode(ops[t].code)
       IN  IF Len(finalSig) = 0
           THEN /\ ops' = [ops EXCEPT ![t].pc = "failed"]
                /\ UNCHANGED <<files, cache, ecache>>
           ELSE /\ RegisterParser(protocolID, cleanCode, written)
                /\ ops' = [ops EXCEPT ![t] =
                             [@ EXCEPT !.pc = IF written THEN "bind" ELSE "failed",
                                       !.finalSig = finalSig,
                                       !.protocolID = protocolID]]
    /\ UNCHANGED <<dispatcherVars, manifest, apiVars, config, engineVars, stepVars, conns, inflight, hist>>

\* a requestAndRegister that binds the caller's signature next to the final one
BindStepBothSignatures(t) ==
    /\ ops[t].pc = "bind"
    /\ routes' = BindRoutes(BindRoutes(routes, ops[t].sig, ops[t].protocolID),
                            ops[t].finalSig, ops[t].protocolID)
    /\ root' = BindTrie(BindTrie(root, ops[t].sig, ops[t].protocolID),
                        ops[t].finalSig, ops[t].protocolID)
    /\ bound' = [s \in DOMAIN bound \cup {ops[t].sig, ops[t].finalSig} |->
                    IF s \in {ops[t].sig, ops[t].finalSig} THEN ops[t].protocolID
                    ELSE bound[s]]
    /\ ops' = [ops EXCEPT ![t] = [@ EXCEPT !.pc = "snapshot", !.opBound = TRUE]]
    /\ hist' = [hist EXCEPT !.committed = @ \cup {HexOf(ops[t].finalSig)}]
    /\ UNCHANGED <<managerVars, ecache, apiVars, config, engineVars, stepVars, conns, inflight>>

\* s.dispatcher.Bind(finalSig, protocolID)
BindStep(t) ==
    /\ ops[t].pc = "bind"
    /\ Bind(ops[t].finalSig, ops[t].protocolID)
    /\ ops' = [ops EXCEPT ![t] = [@ EXCEPT !.pc = "snapshot", !.opBound = TRUE]]
    /\ hist' = [hist EXCEPT !.committed = @ \cup {HexOf(ops[t].finalSig)}]
    /\ UNCHANGED <<managerVars, ecache, apiVars, config, engineVars, stepVars, conns, inflight>>

\* s.dispatcher.GetBindings(), the argument of SaveManifest
Snapshot(t) ==
    /\ ops[t].pc = "snapshot"
    /\ ops' = [ops EXCEPT ![t] = [@ EXCEPT !.pc = "save", !.snapshot = GetBindings]]
    /\ UNCHANGED <<dispatcherVars, managerVars, ecache, apiVars, config, engineVars, stepVars, conns, inflight, hist>>

\* ParserManager.SaveManifest(bindings), its error dropped by the caller, and
\* the return of requestAndRegister
SaveManifest(t, written) ==
    /\ ops[t].pc = "save"
    /\ manifest' = IF written THEN ManifestFile(ops[t].snapshot) ELSE manifest
    /\ hist' = [hist EXCEPT !.saveFailed = @ \/ ~written,
                            !.saved = IF written
                                      THEN [done |-> TRUE, bindings |-> ops[t].snapshot]
                                      ELSE @]
    /\ ops' = [ops EXCEPT ![t].pc = "ok"]
    /\ UNCHANGED <<dispatcherVars, cache, files, ecache, apiVars, config, engineVars, stepVars, conns, inflight>>

-----------------------------------------------------------------------------
(* TCPServer.handleConnection *)

FramesRead == LET RECURSIVE Sum(_)
                  Sum(S) == IF S = {} THEN 0
                            ELSE LET c == CHOOSE x \in S : TRUE
                                 IN  conns[c].n + Sum(S \ {c})
              IN  Sum(Conns)

\* conn.Read and the first s.dispatcher.Ingest(raw)
Receive(c, raw) ==
    /\ conns[c].pc = "read"
    /\ FramesRead < MaxFrames
    /\ LET r == Ingest(raw) IN
         /\ ecache' = r.cache
         /\ conns' = [conns EXCEPT ![c] =
                        [IdleConn EXCEPT !.pc = "route", !.raw = raw, !.proto = r.proto,
                                         !.err = r.err, !.ran = r.ran, !.n = conns[c].n + 1]]
    /\ UNCHANGED <<dispatcherVars, managerVars, apiVars, config, engineVars, stepVars, ops, inflight, hist>>

\* the goroutine a launch runs on
IdleWorkers == {g \in Workers : ops[g].pc = "idle"}
FreeWorker == CHOOSE g \in IdleWorkers : TRUE

\* a launch that does not look at what StartDiscovery answered
LaunchAlways(started) == TRUE

\* the test guarding the launch of the discovery goroutine
LaunchIf(started) == started

\* a loop body whose discovery branch falls through to the reply
RouteWithoutContinue(c, promptRead) ==
    /\ conns[c].pc = "route"
    /\ LET k == conns[c] IN
       IF k.err # NoErr /\ k.proto # EmptyID /\ ~k.retried /\ GetParserCode(k.proto).exists
       THEN /\ StartOp(c, "repair", k.raw, <<>>, k.proto,
                       GetParserCode(k.proto).code, promptRead)
            /\ conns' = [conns EXCEPT ![c].pc = "repair"]
            /\ UNCHANGED <<inflight, hist>>
       ELSE IF k.err # NoErr /\ k.proto = EmptyID
       THEN LET sig == <<k.raw[1]>> IN
            /\ inflight' = inflight \cup {sig}
            /\ IF LaunchIf(StartDiscovery(sig))
               THEN /\ IdleWorkers # {}
                    /\ StartOp(FreeWorker, "discover", k.raw, sig, EmptyID, NoSrc,
                               promptRead)
                    /\ UNCHANGED hist
               ELSE /\ hist' = [hist EXCEPT !.dropped = @ \cup {sig}]
                    /\ UNCHANGED ops
            /\ conns' = [conns EXCEPT ![c] = [IdleConn EXCEPT !.n = k.n, !.reply = "error"]]
       ELSE /\ conns' = [conns EXCEPT ![c] =
                           [IdleConn EXCEPT !.n = k.n,
                                            !.reply = IF k.err = NoErr THEN "parsed"
                                                      ELSE "error"]]
            /\ UNCHANGED <<ops, inflight, hist>>
    /\ UNCHANGED <<dispatcherVars, managerVars, ecache, apiVars, config, engineVars, stepVars>>

\* the branches of the loop body after Ingest: repair of a known protocol,
\* discovery of an unknown one, or the reply
Route(c, promptRead) ==
    /\ conns[c].pc = "route"
    /\ LET k == conns[c] IN
       IF k.err # NoErr /\ k.proto # EmptyID /\ ~k.retried /\ GetParserCode(k.proto).exists
       THEN /\ StartOp(c, "repair", k.raw, <<>>, k.proto,
                       GetParserCode(k.proto).code, promptRead)
            /\ conns' = [conns EXCEPT ![c].pc = "repair"]
            /\ UNCHANGED <<inflight, hist>>
       ELSE IF k.err # NoErr /\ k.proto = EmptyID
       THEN LET sig == <<k.raw[1]>> IN
            /\ inflight' = inflight \cup {sig}
            /\ IF LaunchIf(StartDiscovery(sig))
               THEN /\ IdleWorkers # {}
                    /\ StartOp(FreeWorker, "discover", k.raw, sig, EmptyID, NoSrc,
                               promptRead)
                    /\ UNCHANGED hist
               ELSE /\ hist' = [hist EXCEPT !.dropped = @ \cup {sig}]
                    /\ UNCHANGED ops
            /\ conns' = [conns EXCEPT ![c] = [IdleConn EXCEPT !.n = k.n]]
       ELSE /\ conns' = [conns EXCEPT ![c] =
                           [IdleConn EXCEPT !.n = k.n,
                                            !.reply = IF k.err = NoErr THEN "parsed"
                                                      ELSE "error"]]
            /\ UNCHANGED <<ops, inflight, hist>>
    /\ UNCHANGED <<dispatcherVars, managerVars, ecache, apiVars, config, engineVars, stepVars>>

\* RepairParser returned: on success the frame is ingested again
AfterRepair(c) ==
    /\ conns[c].pc = "repair"
    /\ Returned(c)
    /\ IF ops[c].pc = "ok"
       THEN LET r == Ingest(conns[c].raw) IN
            /\ ecache' = r.cache
            /\ conns' = [conns EXCEPT ![c] =
                           [@ EXCEPT !.pc = "route", !.proto = r.proto, !.err = r.err,
                                     !.ran = r.ran, !.retried = TRUE,
                                     !.fixed = sanitizeAiCode(ops[c].code)]]
       ELSE /\ conns' = [conns EXCEPT ![c] = [@ EXCEPT !.pc = "route", !.retried = TRUE]]
            /\ UNCHANGED ecache
    /\ ops' = [ops EXCEPT ![c] = IdleOp]
    /\ UNCHANGED <<dispatcherVars, managerVars, apiVars, config, engineVars, stepVars, inflight, hist>>

\* a goroutine that calls FinishDiscovery only after a successful discovery
WorkerFinishOnSuccess(g) ==
    /\ Returned(g)
    /\ inflight' = IF ops[g].pc = "ok" THEN FinishDiscovery(ops[g].sig) ELSE inflight
    /\ ops' = [ops EXCEPT ![g] = IdleOp]
    /\ hist' = [hist EXCEPT !.ended = @ \cup {ops[g].sig}]
    /\ UNCHANGED <<dispatcherVars, managerVars, ecache, apiVars, config, engineVars, stepVars, conns>>

\* the discovery goroutine after DiscoverNewProtocol returned: the deferred
\* FinishDiscovery
WorkerFinish(g) ==
    /\ Returned(g)
    /\ inflight' = FinishDiscovery(ops[g].sig)
    /\ ops' = [ops EXCEPT ![g] = IdleOp]
    /\ hist' = [hist EXCEPT !.ended = @ \cup {ops[g].sig}]
    /\ UNCHANGED <<dispatcherVars, managerVars, ecache, apiVars, config, engineVars, stepVars, conns>>

-----------------------------------------------------------------------------
(* Startup (main): LoadSavedParsers, Bind of the signatures the sources     *)
(* declare, then Bind of the manifest's entries.                            *)

\* a seed like seeds/OBDII_RPM.go, without its length check
SeedSrc == <<PackageDynamic, SignatureComment, "0", "1", "A", "A", FuncParse,
             "data[2]", "}">>

\* what the storage directory may hold when the gateway starts
StorageFresh == [files |-> <<>>, manifest |-> NoFile]
StorageSeeded == [files |-> (FileName(<<"OBDII_RPM">>) :> SeedSrc), manifest |-> NoFile]
StorageLearned == [files |-> (FileName(AutoID(<<1>>)) :> sanitizeAiCode(RespFaulty)),
                   manifest |-> ManifestFile(HexOf(<<1>>) :> AutoID(<<1>>))]
StartStorages == {StorageFresh, StorageSeeded, StorageLearned}

\* LoadSavedParsers: protocolID -> declared hex signature
LoadSavedParsers(dir) ==
    LET loaded == LoadedCache(dir)
        declaring == {id \in DOMAIN loaded : SignatureMatch(loaded[id]) # <<>>}
    IN  [id \in declaring |-> SignatureMatch(loaded[id])]

\* the Dispatcher after binding the pairs of the set B, one after the other
\* in one of the orders a range over the map can take; the orders give one
\* result unless two pairs share a signature, and SpecBoot takes them all
RECURSIVE BindAll(_, _)
BindAll(d, B) ==
    IF B = {} THEN d
    ELSE LET b == CHOOSE x \in B : TRUE
         IN  BindAll([routes |-> BindRoutes(d.routes, b[1], b[2]),
                      root |-> BindTrie(d.root, b[1], b[2]),
                      bound |-> [s \in DOMAIN d.bound \cup {b[1]} |->
                                   IF s = b[1] THEN b[2] ELSE d.bound[s]]],
                     B \ {b})

Startup(storage) ==
    LET loaded == LoadSavedParsers(ReadDir(storage.files, storage.manifest))
        saved == LoadManifest(storage.manifest)
        fromSources == {<<hexToBytes(loaded[id]), id>> : id \in DOMAIN loaded}
        fromManifest == {<<hexToBytes(h), saved[h]>> : h \in DOMAIN saved}
    IN  BindAll(BindAll([routes |-> <<>>, root |-> [p \in {<<>>} |-> EmptyID],
                         bound |-> <<>>],
                        fromSources),
                fromManifest)

\* NewEngine, no Execute under way
InitEngine ==
    /\ emu = {}
    /\ execs = <<>>

\* the Dispatcher's lock free, no Bind or Ingest under way
NoLock == [writer |-> "none", readers |-> {}]
InitDispatcherLock ==
    /\ dmu = NoLock
    /\ dops = <<>>

\* no RegisterParser under way
NoWrite == [pc |-> "idle", id |-> EmptyID, code |-> NoSrc, n |-> 0, prev |-> NoFile,
            err |-> NoErr]
InitWriter == wr = NoWrite

\* a ParserManager without a seed directory it can read
NoSeeds == [exists |-> FALSE, entries |-> <<>>]
InitSeeds == seeds = NoSeeds

\* main has reached ListenAndServe
Booted == [pc |-> "up", bindings |-> <<>>, saved |-> <<>>]
InitBoot == boot = Booted

\* a sync.RWMutex nobody holds or waits for
FreeMutex == [w |-> "none", r |-> {}, q |-> {}]
Mutexes == {"Dispatcher", "Manager", "Engine"}
LockThreads == {"k1", "k2"}
IdleLock == [pc |-> "idle", op |-> "none", id |-> EmptyID, code |-> NoSrc, err |-> NoErr]
InitLocks == lk = [mu |-> [m \in Mutexes |-> FreeMutex],
                   th |-> [t \in LockThreads |-> IdleLock]]

InitServer ==
    /\ conns = [c \in Conns |-> IdleConn]
    /\ ops = [t \in Threads |-> IdleOp]
    /\ inflight = {}
    /\ hist = [committed |-> {}, saveFailed |-> FALSE, dropped |-> {},
               saved |-> [done |-> FALSE, bindings |-> <<>>], registered |-> <<>>,
               order |-> <<>>, returned |-> 0, ended |-> {}]

\* the gateway in server mode, started on one of the storages
Init ==
    /\ \E storage \in StartStorages :
         /\ files = storage.files
         /\ cache = LoadedCache(ReadDir(storage.files, storage.manifest))
         /\ manifest = storage.manifest
         /\ routes = Startup(storage).routes
         /\ root = Startup(storage).root
         /\ bound = Startup(storage).bound
    /\ ecache = <<>>
    /\ last = NoCall
    /\ calls = 0
    /\ config = [MaxRetries |-> MaxRetries]
    /\ InitEngine
    /\ InitDispatcherLock
    /\ InitWriter
    /\ InitSeeds
    /\ InitLocks
    /\ InitBoot
    /\ InitServer

Next ==
    \/ \E c \in Conns, raw \in ServerFrames : Receive(c, raw)
    \/ \E c \in Conns, promptRead \in BOOLEAN : Route(c, promptRead)
    \/ \E c \in Conns : AfterRepair(c)
    \/ \E g \in Workers : WorkerFinish(g)
    \/ \E t \in Threads, answered \in BOOLEAN, resp \in Responses :
         OracleCall(t, answered, resp)
    \/ \E t \in Threads, written \in BOOLEAN : Register(t, written)
    \/ \E t \in Threads : BindStep(t)
    \/ \E t \in Threads : Snapshot(t)
    \/ \E t \in Threads, written \in BOOLEAN : SaveManifest(t, written)

Spec == Init /\ [][Next]_vars

\* the components used directly, from their constructors on
InitAPI ==
    /\ InitComponents
    /\ last = NoCall
    /\ calls = 0
    /\ config = [MaxRetries |-> MaxRetries]
    /\ InitEngine
    /\ InitDispatcherLock
    /\ InitWriter
    /\ InitSeeds
    /\ InitLocks
    /\ InitBoot
    /\ InitServer

NextAPI ==
    \/ \E sig \in Signatures, id \in NamedIDs : APIBind(sig, id)
    \/ \E id \in NamedIDs, code \in APISources, written \in BOOLEAN :
         APIRegisterParser(id, code, written)
    \/ \E data \in APIFrames : APIIngest(data)

SpecAPI == InitAPI /\ [][NextAPI]_vars

-----------------------------------------------------------------------------
(* The Discovery service called directly, as the MCP tool handler and the   *)
(* tests call it, with any sample and signature.                            *)

\* operations started in one behaviour of SpecCalls
MaxOps == 2
\* largest DiscoveryConfig.MaxRetries a service is constructed with
MaxConfigRetries == 3

CallSamples == {<<>>, <<1>>, <<1, 170>>}
CallSignatures == {<<>>, <<1>>, <<1, 170>>}
CallIDs == NamedIDs \cup {AutoID(<<1>>)}
Configs == {[MaxRetries |-> n] : n \in (-1)..MaxConfigRetries}

\* s.discovery.DiscoverNewProtocol(rawSample, signature, contextHint)
CallDiscover(m, rawSample, signature, promptRead) ==
    /\ ops[m].pc = "idle"
    /\ calls < MaxOps
    /\ calls' = calls + 1
    /\ StartOp(m, "discover", rawSample, signature, EmptyID, NoSrc, promptRead)
    /\ UNCHANGED <<dispatcherVars, managerVars, ecache, last, conns, inflight, hist,
                   config, engineVars, stepVars>>

\* s.discovery.RepairParser(protocolID, faultyCode, errorMsg, rawSample, signature)
\* for a protocolID the Manager has a source for
CallRepair(m, protocolID, rawSample, signature, promptRead) ==
    /\ ops[m].pc = "idle"
    /\ calls < MaxOps
    /\ GetParserCode(protocolID).exists
    /\ calls' = calls + 1
    /\ StartOp(m, "repair", rawSample, signature, protocolID,
               GetParserCode(protocolID).code, promptRead)
    /\ UNCHANGED <<dispatcherVars, managerVars, ecache, last, conns, inflight, hist,
                   config, engineVars, stepVars>>

\* the operation returned (protocolID, nil) or ("", err) to its caller
CallReturn(m) ==
    /\ Returned(m)
    /\ last' = [NoCall EXCEPT !.op = ops[m].kind,
                              !.id = IF ops[m].pc = "ok" THEN ops[m].protocolID ELSE EmptyID,
                              !.err = IF ops[m].pc = "ok" THEN NoErr ELSE "error"]
    /\ ops' = [ops EXCEPT ![m] = IdleOp]
    /\ UNCHANGED <<dispatcherVars, managerVars, ecache, calls, conns, inflight, hist,
                   config, engineVars, stepVars>>

InitCalls ==
    /\ \E storage \in StartStorages :
         /\ files = storage.files
         /\ cache = LoadedCache(ReadDir(storage.files, storage.manifest))
         /\ manifest = storage.manifest
         /\ routes = Startup(storage).routes
         /\ root = Startup(storage).root
         /\ bound = Startup(storage).bound
    /\ ecache = <<>>
    /\ last = NoCall
    /\ calls = 0
    /\ config \in Configs
    /\ InitEngine
    /\ InitDispatcherLock
    /\ InitWriter
    /\ InitSeeds
    /\ InitLocks
    /\ InitBoot
    /\ InitServer

NextCalls ==
    \/ \E m \in Callers, rawSample \in CallSamples, signature \in CallSignatures,
          promptRead \in BOOLEAN : CallDiscover(m, rawSample, signature, promptRead)
    \/ \E m \in Callers, protocolID \in CallIDs, rawSample \in CallSamples,
          signature \in CallSignatures, promptRead \in BOOLEAN :
         CallRepair(m, protocolID, rawSample, signature, promptRead)
    \/ \E m \in Callers, answered \in BOOLEAN, resp \in Responses :
         OracleCall(m, answered, resp)
    \/ \E m \in Callers, written \in BOOLEAN : Register(m, written)
    \/ \E m \in Callers : BindStep(m)
    \/ \E m \in Callers : Snapshot(m)
    \/ \E m \in Callers, written \in BOOLEAN : SaveManifest(m, written)
    \/ \E m \in Callers : CallReturn(m)

SpecCalls == InitCalls /\ [][NextCalls]_vars

-----------------------------------------------------------------------------
(* The gateway over several runs: the service is called, the process ends   *)
(* and main starts again on the same storage directory.                     *)

\* an answer with one signature comment ahead of the package clause and
\* another one after it
RespTwoSigs == <<SignatureComment, "0", "1", PackageDynamic, SignatureComment, "a", "a",
                 FuncParse, "return ok", "}">>
\* an answer that defines Parse together with a helper function
RespHelpers == <<PackageDynamic, "func helper(", "return ok", "}", FuncParse, "return ok",
                 "}">>
RunResponses == {RespSigned, RespTwoSigs, RespHelpers}

\* main up to ListenAndServe, on the directory the last run left behind
Restart ==
    /\ \A t \in Threads : ops[t].pc = "idle"
    /\ last.op # "none"
    /\ LET storage == [files |-> files, manifest |-> manifest] IN
         /\ cache' = LoadedCache(ReadDir(files, manifest))
         /\ routes' = Startup(storage).routes
         /\ root' = Startup(storage).root
         /\ bound' = Startup(storage).bound
    /\ ecache' = <<>>
    /\ last' = NoCall
    /\ inflight' = {}
    /\ UNCHANGED <<files, manifest, calls, conns, ops, hist, config, engineVars, stepVars>>

NextRuns ==
    \/ \E m \in Callers, rawSample \in CallSamples, signature \in CallSignatures,
          promptRead \in BOOLEAN : CallDiscover(m, rawSample, signature, promptRead)
    \/ \E m \in Callers, protocolID \in CallIDs, rawSample \in CallSamples,
          signature \in CallSignatures, promptRead \in BOOLEAN :
         CallRepair(m, protocolID, rawSample, signature, promptRead)
    \/ \E m \in Callers, answered \in BOOLEAN, resp \in RunResponses :
         OracleCall(m, answered, resp)
    \/ \E m \in Callers, written \in BOOLEAN : Register(m, written)
    \/ \E m \in Callers : BindStep(m)
    \/ \E m \in Callers : Snapshot(m)
    \/ \E m \in Callers, written \in BOOLEAN : SaveManifest(m, written)
    \/ \E m \in Callers : CallReturn(m)
    \/ Restart

SpecRuns == InitCalls /\ [][NextRuns]_vars

-----------------------------------------------------------------------------
(* The Manager's storage called directly: parsers are registered and the    *)
(* manifest is saved, then a new Manager on the same directory reads them.  *)

SrcLowerSig == <<PackageDynamic, SignatureComment, "a", "a", FuncParse, "return ok", "}">>
SrcBareComment == <<PackageDynamic, SignatureComment, FuncParse, "return ok", "}">>
StoreSources == {SrcOK, SeedSrc, SrcLowerSig, SrcBareComment}

StoreKeys == {HexOf(<<1>>), HexOf(<<1, 170>>), HexOf(<<170>>)}
\* the binding maps handed to SaveManifest
StoreBindings ==
    UNION {[K -> NamedIDs] : K \in SUBSET StoreKeys}

StoreUnchanged == UNCHANGED <<dispatcherVars, conns, ops, inflight, config, engineVars, stepVars>>

StoreRegisterParser(protocolID, code, written) ==
    /\ calls < MaxCalls
    /\ RegisterParser(protocolID, code, written)
    /\ calls' = calls + 1
    /\ last' = [NoCall EXCEPT !.op = "RegisterParser", !.id = protocolID, !.code = code,
                              !.err = IF written THEN NoErr ELSE "error"]
    /\ hist' = [hist EXCEPT !.registered =
                   IF written THEN RegisterCache(@, protocolID, code) ELSE @]
    /\ UNCHANGED manifest
    /\ StoreUnchanged

\* ParserManager.SaveManifest(bindings); written tells whether WriteFile succeeded
StoreSaveManifest(bindings, written) ==
    /\ calls < MaxCalls
    /\ manifest' = IF written THEN ManifestFile(bindings) ELSE manifest
    /\ calls' = calls + 1
    /\ last' = [NoCall EXCEPT !.op = "SaveManifest", !.bindings = bindings,
                              !.err = IF written THEN NoErr ELSE "error"]
    /\ hist' = [hist EXCEPT !.saveFailed = @ \/ ~written,
                            !.saved = IF written
                                      THEN [done |-> TRUE, bindings |-> bindings]
                                      ELSE @]
    /\ UNCHANGED <<cache, files, ecache>>
    /\ StoreUnchanged

\* ParserManager.LoadManifest()
StoreLoadManifest ==
    /\ last' = [NoCall EXCEPT !.op = "LoadManifest", !.bindings = LoadManifest(manifest)]
    /\ UNCHANGED <<managerVars, ecache, calls, hist>>
    /\ StoreUnchanged

\* NewParserManager on the same storagePath, then LoadSavedParsers()
StoreReload ==
    /\ cache' = LoadedCache(ReadDir(files, manifest))
    /\ ecache' = <<>>
    /\ last' = [NoCall EXCEPT !.op = "LoadSavedParsers",
                              !.bindings = LoadSavedParsers(ReadDir(files, manifest))]
    /\ UNCHANGED <<files, manifest, calls, hist>>
    /\ StoreUnchanged

InitStore ==
    /\ InitComponents
    /\ last = NoCall
    /\ calls = 0
    /\ config = [MaxRetries |-> MaxRetries]
    /\ InitEngine
    /\ InitDispatcherLock
    /\ InitWriter
    /\ InitSeeds
    /\ InitLocks
    /\ InitBoot
    /\ InitServer

NextStore ==
    \/ \E id \in CallIDs, code \in StoreSources, written \in BOOLEAN :
         StoreRegisterParser(id, code, written)
    \/ \E bindings \in StoreBindings, written \in BOOLEAN :
         StoreSaveManifest(bindings, written)
    \/ StoreLoadManifest
    \/ StoreReload

SpecStore == InitStore /\ [][NextStore]_vars

-----------------------------------------------------------------------------
(* RegisterParser step by step: ioutil.WriteFile opens the file at its      *)
(* final path with O_TRUNC, writes the source into it and closes it; the    *)
(* process may end between any two steps, and main starts again.            *)

\* RegisterParser calls started in one behaviour of SpecWrite
MaxWrites == 2

WriteSources == {SrcOK, SeedSrc}

\* the file <name> of the storage directory, as os.ReadFile would give it
FileAt(name) ==
    IF name \in DOMAIN files THEN [exists |-> TRUE, data |-> files[name]] ELSE NoFile

WriteUnchanged ==
    UNCHANGED <<manifest, conns, ops, inflight, hist, config, engineVars, dmu, dops,
                seeds, lk, boot>>

\* RegisterParser is called: m.mu.Lock(), filename
WCall(protocolID, code) ==
    /\ wr.pc = "idle"
    /\ calls < MaxWrites
    /\ calls' = calls + 1
    /\ wr' = [NoWrite EXCEPT !.pc = "open", !.id = protocolID, !.code = code,
                             !.prev = FileAt(FileName(protocolID))]
    /\ UNCHANGED <<dispatcherVars, cache, files, ecache, last>>
    /\ WriteUnchanged

\* os.OpenFile(filename, O_WRONLY|O_CREATE|O_TRUNC, perm) inside ioutil.WriteFile
WOpen(opened) ==
    /\ wr.pc = "open"
    /\ IF opened
       THEN /\ files' = RegisterCache(files, FileName(wr.id), <<>>)
            /\ wr' = [wr EXCEPT !.pc = "write"]
       ELSE /\ files' = files
            /\ wr' = [wr EXCEPT !.pc = "return", !.err = "error"]
    /\ UNCHANGED <<dispatcherVars, cache, ecache, last, calls>>
    /\ WriteUnchanged

\* f.Write(data): the next part of the source reaches the file, or the write
\* fails and WriteFile returns its error
WWrite(written) ==
    /\ wr.pc = "write"
    /\ wr.n < Len(wr.code)
    /\ IF written
       THEN /\ files' = [files EXCEPT ![FileName(wr.id)] = Append(@, wr.code[wr.n + 1])]
            /\ wr' = [wr EXCEPT !.n = @ + 1]
       ELSE /\ files' = files
            /\ wr' = [wr EXCEPT !.pc = "return", !.err = "error"]
    /\ UNCHANGED <<dispatcherVars, cache, ecache, last, calls>>
    /\ WriteUnchanged

\* f.Close(), WriteFile returns nil, and m.cache[protocolID] = code
WCache ==
    /\ wr.pc = "write"
    /\ wr.n = Len(wr.code)
    /\ cache' = RegisterCache(cache, wr.id, wr.code)
    /\ ecache' = RegisterEngineCache(ecache, wr.id)
    /\ wr' = [wr EXCEPT !.pc = "return"]
    /\ UNCHANGED <<dispatcherVars, files, last, calls>>
    /\ WriteUnchanged

\* RegisterParser returns: m.mu.Unlock()
WReturn ==
    /\ wr.pc = "return"
    /\ last' = [NoCall EXCEPT !.op = "RegisterParser", !.id = wr.id, !.code = wr.code,
                              !.err = wr.err]
    /\ wr' = NoWrite
    /\ UNCHANGED <<dispatcherVars, cache, files, ecache, calls>>
    /\ WriteUnchanged

\* the process ends while RegisterParser runs: what is in memory is gone, the
\* storage directory stays as it is
WCrash ==
    /\ wr.pc \in {"open", "write", "return"}
    /\ wr' = [wr EXCEPT !.pc = "crashed"]
    /\ cache' = <<>>
    /\ ecache' = <<>>
    /\ routes' = <<>>
    /\ root' = [p \in {<<>>} |-> EmptyID]
    /\ bound' = <<>>
    /\ last' = NoCall
    /\ UNCHANGED <<files, calls>>
    /\ WriteUnchanged

\* main starts again on the storage directory
WRestart ==
    /\ wr.pc = "crashed"
    /\ LET storage == [files |-> files, manifest |-> manifest] IN
         /\ cache' = LoadedCache(ReadDir(files, manifest))
         /\ routes' = Startup(storage).routes
         /\ root' = Startup(storage).root
         /\ bound' = Startup(storage).bound
    /\ wr' = NoWrite
    /\ UNCHANGED <<files, ecache, last, calls>>
    /\ WriteUnchanged

NextWrite ==
    \/ \E protocolID \in CallIDs, code \in WriteSources : WCall(protocolID, code)
    \/ \E opened \in BOOLEAN : WOpen(opened)
    \/ \E written \in BOOLEAN : WWrite(written)
    \/ WCache
    \/ WReturn
    \/ WCrash
    \/ WRestart

SpecWrite == InitStore /\ [][NextWrite]_vars

-----------------------------------------------------------------------------
(* SeedParsers, as main calls it on a new ParserManager before it loads the *)
(* stored parsers.                                                          *)

\* SeedParsers calls in one behaviour of SpecSeed
MaxSeedRuns == 2

SeedNames == {FileName(<<"OBDII_RPM">>), FileName(<<"Engine">>)}
SeedContents == {SeedSrc, SrcOK}
\* the seed directories: unreadable, or readable with some of the names
SeedDirs ==
    {NoSeeds} \cup
    {[exists |-> TRUE, entries |-> e] :
        e \in UNION {[N -> SeedContents] : N \in SUBSET SeedNames}}
\* what the storage directory holds before SeedParsers runs
SeedStorages ==
    UNION {[N -> {SrcIndex}] : N \in SUBSET SeedNames}

\* the storage directory after SeedParsers.  unread: the seed files whose
\* ReadFile fails; unopened: the destinations WriteFile cannot create; cut: the
\* destinations WriteFile creates and then fails to write
SeedParsers(storage, seedDir, unread, unopened, cut) ==
    IF ~seedDir.exists THEN storage
    ELSE LET copied == {n \in DOMAIN seedDir.entries :
                          n \notin DOMAIN storage /\ n \notin unread /\ n \notin unopened}
         IN  [n \in DOMAIN storage \cup copied |->
                IF n \in DOMAIN storage THEN storage[n]
                ELSE IF n \in cut THEN <<>>
                ELSE seedDir.entries[n]]

\* mgr.SeedParsers(); it returns nil whatever happened
SeedStep(unread, unopened, cut) ==
    /\ calls < MaxSeedRuns
    /\ calls' = calls + 1
    /\ files' = SeedParsers(files, seeds, unread, unopened, cut)
    /\ last' = [NoCall EXCEPT !.op = "SeedParsers", !.err = NoErr]
    /\ UNCHANGED <<dispatcherVars, cache, manifest, ecache, hist>>
    /\ StoreUnchanged

\* mgr.LoadSavedParsers()
SeedLoad ==
    /\ last.op = "SeedParsers"
    /\ cache' = LoadedCache(ReadDir(files, manifest))
    /\ last' = [NoCall EXCEPT !.op = "LoadSavedParsers",
                              !.bindings = LoadSavedParsers(ReadDir(files, manifest))]
    /\ UNCHANGED <<dispatcherVars, files, manifest, ecache, calls, hist>>
    /\ StoreUnchanged

InitSeed ==
    /\ routes = <<>>
    /\ root = [p \in {<<>>} |-> EmptyID]
    /\ bound = <<>>
    /\ cache = <<>>
    /\ files \in SeedStorages
    /\ manifest = NoFile
    /\ ecache = <<>>
    /\ last = NoCall
    /\ calls = 0
    /\ config = [MaxRetries |-> MaxRetries]
    /\ InitEngine
    /\ InitDispatcherLock
    /\ InitWriter
    /\ seeds \in SeedDirs
    /\ InitLocks
    /\ InitBoot
    /\ InitServer

NextSeed ==
    \/ \E unread, unopened, cut \in SUBSET SeedNames : SeedStep(unread, unopened, cut)
    \/ SeedLoad

SpecSeed == InitSeed /\ [][NextSeed]_vars

-----------------------------------------------------------------------------
(* The Dispatcher of the source history, which keeps only the routes map    *)
(* and scans it in Ingest, next to the trie Dispatcher: both receive the    *)
(* same Bind calls, any signature and any protocolID, empty ones included.  *)

\* Bind calls in one behaviour of SpecEquiv
MaxEquivCalls == 3

EquivSignatures == {<<>>, <<1>>, <<1, 170>>}
EquivIDs == NamedIDs \cup {EmptyID}
EquivFrames == {<<>>, <<1>>, <<1, 170>>, <<170>>}

\* the loop of the map-scan Ingest: the protocolID of the longest key whose
\* bytes are a prefix of data, a key counting only when it is longer than the
\* matchedSig so far, which starts empty
ScanMatch(r, data) ==
    LET hits == {h \in DOMAIN r : IsPrefix(hexToBytes(h), data) /\ Len(h) > 0}
    IN  IF hits = {} THEN EmptyID
        ELSE r[CHOOSE h \in hits : \A g \in hits : Len(g) <= Len(h)]

\* what the map-scan Ingest gives as protocolID and error before ParseData
IngestScan(r, data) ==
    IF Len(data) = 0 THEN [proto |-> EmptyID, err |-> "empty payload"]
    ELSE IF ScanMatch(r, data) = EmptyID
    THEN [proto |-> EmptyID, err |-> "unknown protocol signature"]
    ELSE [proto |-> ScanMatch(r, data), err |-> NoErr]

\* the same of the trie Ingest
IngestTrie(data) ==
    IF Len(data) = 0 THEN [proto |-> EmptyID, err |-> "empty payload"]
    ELSE IF MatchedProto(data) = EmptyID
    THEN [proto |-> EmptyID, err |-> "unknown protocol signature"]
    ELSE [proto |-> MatchedProto(data), err |-> NoErr]

\* Bind(signature, protocolID) on both Dispatchers: the map-scan one keeps
\* routes, the trie one routes and root
EquivBind(signature, protocolID) ==
    /\ calls < MaxEquivCalls
    /\ calls' = calls + 1
    /\ Bind(signature, protocolID)
    /\ last' = [NoCall EXCEPT !.op = "Bind", !.frame = signature, !.id = protocolID]
    /\ UNCHANGED <<managerVars, ecache, serverVars, config, engineVars, stepVars>>

\* Ingest(data) on both: last.id is the trie's protocolID, last.prev the scan's
EquivIngest(data) ==
    /\ last' = [NoCall EXCEPT !.op = "Ingest", !.frame = data,
                              !.id = IngestTrie(data).proto,
                              !.err = IngestTrie(data).err,
                              !.prev = IngestScan(routes, data).proto]
    /\ UNCHANGED <<dispatcherVars, managerVars, ecache, calls, serverVars, config,
                   engineVars, stepVars>>

NextEquiv ==
    \/ \E signature \in EquivSignatures, protocolID \in EquivIDs :
         EquivBind(signature, protocolID)
    \/ \E data \in EquivFrames : EquivIngest(data)

SpecEquiv == InitAPI /\ [][NextEquiv]_vars

-----------------------------------------------------------------------------
(* The three locks together: goroutines calling Ingest, Bind, GetBindings,  *)
(* RegisterParser, GetParserCode, Execute, ClearCache and CompileAndCache,  *)
(* every Lock, RLock and Unlock a step.  A sync.RWMutex lets a reader in    *)
(* while no writer holds it or waits for it; a writer announces itself and  *)
(* then waits for the readers to leave.                                     *)

LockOps == {"Ingest", "Bind", "GetBindings", "RegisterParser", "GetParserCode",
            "Execute", "ClearCache", "CompileAndCache"}
LockIDs == {<<"OBDII_RPM">>}
\* a package that compiles and declares no Parse
SrcNoParse == <<PackageDynamic>>
LockSources == {SrcOK, SrcImportOs, SrcNoParse}
LockFrame == <<1>>

\* the first statement of each method
FirstPC(op) ==
    CASE op \in {"Ingest", "GetBindings"} -> "d_rlock"
      [] op = "Bind"                      -> "d_lock"
      [] op = "RegisterParser"            -> "m_lock"
      [] op = "GetParserCode"             -> "m_rlock"
      [] op = "Execute"                   -> "e_rlock"
      [] op = "ClearCache"                -> "e_lock"
      [] op = "CompileAndCache"           -> "compile"

CanRLock(m) == lk.mu[m].w = "none" /\ lk.mu[m].q = {}
CanLock(m, t) == t \in lk.mu[m].q /\ lk.mu[m].w = "none" /\ lk.mu[m].r = {}

\* where a call goes when its Execute part is over
AfterExecute(t) == IF lk.th[t].op = "Ingest" THEN "d_runlock" ELSE "return"

LockUnchanged ==
    UNCHANGED <<last, calls, serverVars, config, engineVars, dmu, dops, wr, seeds, boot>>

\* a goroutine calls one of the methods
LBegin(t, op, id, code) ==
    /\ lk.th[t].pc = "idle"
    /\ lk' = [lk EXCEPT !.th[t] = [IdleLock EXCEPT !.pc = FirstPC(op), !.op = op,
                                                   !.id = id, !.code = code]]
    /\ UNCHANGED <<dispatcherVars, managerVars, ecache>>
    /\ LockUnchanged

\* Ingest: d.mu.RLock() and the walk down the trie
LIngestRLock(t) ==
    /\ lk.th[t].pc = "d_rlock"
    /\ lk.th[t].op = "Ingest"
    /\ CanRLock("Dispatcher")
    /\ LET matched == Walk(root, LockFrame, 1, EmptyID) IN
       lk' = [lk EXCEPT !.mu["Dispatcher"].r = @ \cup {t},
                        !.th[t] = IF matched = EmptyID
                                  THEN [@ EXCEPT !.pc = "d_runlock", !.err = "unknown"]
                                  ELSE [@ EXCEPT !.pc = "m_rlock", !.id = matched]]
    /\ UNCHANGED <<dispatcherVars, managerVars, ecache>>
    /\ LockUnchanged

\* GetBindings: d.mu.RLock()
LGetBindingsRLock(t) ==
    /\ lk.th[t].pc = "d_rlock"
    /\ lk.th[t].op = "GetBindings"
    /\ CanRLock("Dispatcher")
    /\ lk' = [lk EXCEPT !.mu["Dispatcher"].r = @ \cup {t}, !.th[t].pc = "d_runlock"]
    /\ UNCHANGED <<dispatcherVars, managerVars, ecache>>
    /\ LockUnchanged

\* the deferred d.mu.RUnlock() of Ingest and of GetBindings
LDispatcherRUnlock(t) ==
    /\ lk.th[t].pc = "d_runlock"
    /\ lk' = [lk EXCEPT !.mu["Dispatcher"].r = @ \ {t}, !.th[t].pc = "return"]
    /\ UNCHANGED <<dispatcherVars, managerVars, ecache>>
    /\ LockUnchanged

\* Lock() is called on the mutex m: the writer announces itself
LockRequest(t, m, from, to) ==
    /\ lk.th[t].pc = from
    /\ lk' = [lk EXCEPT !.mu[m].q = @ \cup {t}, !.th[t].pc = to]
    /\ UNCHANGED <<dispatcherVars, managerVars, ecache>>
    /\ LockUnchanged

\* Lock() returns: no writer and no reader is left in the mutex m
LockAcquire(t, m, from, to) ==
    /\ lk.th[t].pc = from
    /\ CanLock(m, t)
    /\ lk' = [lk EXCEPT !.mu[m].q = @ \ {t}, !.mu[m].w = t, !.th[t].pc = to]
    /\ UNCHANGED <<dispatcherVars, managerVars, ecache>>
    /\ LockUnchanged

\* Bind: d.mu.Lock()
LBindLock(t) == LockRequest(t, "Dispatcher", "d_lock", "d_wait")
LBindLocked(t) == LockAcquire(t, "Dispatcher", "d_wait", "d_locked")

\* Bind: the writes to routes and trie, and the deferred Unlock
LBindWrite(t) ==
    /\ lk.th[t].pc = "d_locked"
    /\ Bind(LockFrame, lk.th[t].id)
    /\ lk' = [lk EXCEPT !.mu["Dispatcher"].w = "none", !.th[t].pc = "return"]
    /\ UNCHANGED <<managerVars, ecache>>
    /\ LockUnchanged

\* RegisterParser: m.mu.Lock()
LRegisterLock(t) == LockRequest(t, "Manager", "m_lock", "m_wait")
LRegisterLocked(t) == LockAcquire(t, "Manager", "m_wait", "m_locked")

\* a RegisterParser that goes on into Bind with the Manager's lock held
LRegisterWriteThenBind(t, written) ==
    /\ lk.th[t].pc = "m_locked"
    /\ RegisterParser(lk.th[t].id, lk.th[t].code, written)
    /\ lk' = [lk EXCEPT !.th[t] = [@ EXCEPT !.pc = "d_lock",
                                            !.err = IF written THEN NoErr ELSE "write"]]
    /\ UNCHANGED <<dispatcherVars, manifest>>
    /\ LockUnchanged

\* RegisterParser: the file write, the cache entry, and the deferred Unlock
LRegisterWrite(t, written) ==
    /\ lk.th[t].pc = "m_locked"
    /\ RegisterParser(lk.th[t].id, lk.th[t].code, written)
    /\ lk' = [lk EXCEPT !.mu["Manager"].w = "none",
                        !.th[t] = [@ EXCEPT !.pc = "return",
                                            !.err = IF written THEN NoErr ELSE "write"]]
    /\ UNCHANGED <<dispatcherVars, manifest>>
    /\ LockUnchanged

\* GetParserCode, and the head of ParseData: RLock, m.cache[protocolID], RUnlock
LManagerRead(t) ==
    /\ lk.th[t].pc = "m_rlock"
    /\ CanRLock("Manager")
    /\ LET got == GetParserCode(lk.th[t].id) IN
       lk' = [lk EXCEPT !.th[t] =
                 IF lk.th[t].op = "GetParserCode"
                 THEN [@ EXCEPT !.pc = "return", !.code = got.code]
                 ELSE IF ~got.exists
                 THEN [@ EXCEPT !.pc = "d_runlock", !.err = "no parser found"]
                 ELSE [@ EXCEPT !.pc = "e_rlock", !.code = got.code]]
    /\ UNCHANGED <<dispatcherVars, managerVars, ecache>>
    /\ LockUnchanged

\* ExecuteWithContext: RLock, e.cache[id], RUnlock
LExecCheck(t) ==
    /\ lk.th[t].pc = "e_rlock"
    /\ CanRLock("Engine")
    /\ lk' = [lk EXCEPT !.th[t] =
                 IF lk.th[t].id \in DOMAIN ecache
                 THEN [@ EXCEPT !.pc = "run", !.code = ecache[lk.th[t].id]]
                 ELSE [@ EXCEPT !.pc = "e_lock"]]
    /\ UNCHANGED <<dispatcherVars, managerVars, ecache>>
    /\ LockUnchanged

\* e.mu.Lock() of ExecuteWithContext, ClearCache and CompileAndCache
LEngineLock(t) == LockRequest(t, "Engine", "e_lock", "e_wait")
LEngineLocked(t) == LockAcquire(t, "Engine", "e_wait", "e_locked")

\* a compile step that stores what the failed compilation returned
LExecCompileStoresFailure(t) ==
    /\ lk.th[t].pc = "e_locked"
    /\ lk.th[t].op \in {"Ingest", "Execute"}
    /\ LET x == lk.th[t] IN
       IF x.id \in DOMAIN ecache
       THEN /\ lk' = [lk EXCEPT !.mu["Engine"].w = "none",
                                !.th[t] = [@ EXCEPT !.pc = "run", !.code = ecache[x.id]]]
            /\ UNCHANGED ecache
       ELSE /\ lk' = [lk EXCEPT !.mu["Engine"].w = "none",
                                !.th[t] = IF compile(x.code) # NoErr
                                          THEN [@ EXCEPT !.pc = AfterExecute(t),
                                                         !.err = compile(x.code)]
                                          ELSE [@ EXCEPT !.pc = "run"]]
            /\ ecache' = [k \in DOMAIN ecache \cup {x.id} |->
                             IF k = x.id THEN x.code ELSE ecache[k]]
    /\ UNCHANGED <<dispatcherVars, managerVars>>
    /\ LockUnchanged

\* ExecuteWithContext under the lock: the second look, compile, the Unlock and
\* return on an error, else e.cache[id] = fn and the Unlock
LExecCompile(t) ==
    /\ lk.th[t].pc = "e_locked"
    /\ lk.th[t].op \in {"Ingest", "Execute"}
    /\ LET x == lk.th[t] IN
       IF x.id \in DOMAIN ecache
       THEN /\ lk' = [lk EXCEPT !.mu["Engine"].w = "none",
                                !.th[t] = [@ EXCEPT !.pc = "run", !.code = ecache[x.id]]]
            /\ UNCHANGED ecache
       ELSE IF compile(x.code) # NoErr
       THEN /\ lk' = [lk EXCEPT !.mu["Engine"].w = "none",
                                !.th[t] = [@ EXCEPT !.pc = AfterExecute(t),
                                                    !.err = compile(x.code)]]
            /\ UNCHANGED ecache
       ELSE /\ lk' = [lk EXCEPT !.mu["Engine"].w = "none", !.th[t].pc = "run"]
            /\ ecache' = [k \in DOMAIN ecache \cup {x.id} |->
                             IF k = x.id THEN x.code ELSE ecache[k]]
    /\ UNCHANGED <<dispatcherVars, managerVars>>
    /\ LockUnchanged

\* ExecuteWithContext: the worker goroutine and the select, no lock held
LExecRun(t) ==
    /\ lk.th[t].pc = "run"
    /\ \E r \in {call(lk.th[t].code, LockFrame).err, "EXECUTION_TIMEOUT"} :
         lk' = [lk EXCEPT !.th[t] = [@ EXCEPT !.pc = AfterExecute(t), !.err = r]]
    /\ UNCHANGED <<dispatcherVars, managerVars, ecache>>
    /\ LockUnchanged

\* ClearCache: delete(e.cache, id) and the deferred Unlock
LClearCache(t) ==
    /\ lk.th[t].pc = "e_locked"
    /\ lk.th[t].op = "ClearCache"
    /\ ecache' = ClearCache(ecache, lk.th[t].id)
    /\ lk' = [lk EXCEPT !.mu["Engine"].w = "none", !.th[t].pc = "return"]
    /\ UNCHANGED <<dispatcherVars, managerVars>>
    /\ LockUnchanged

\* CompileAndCache: e.compile(goCode) before the lock, return on an error
LCompile(t) ==
    /\ lk.th[t].pc = "compile"
    /\ lk' = [lk EXCEPT !.th[t] =
                 IF compile(lk.th[t].code) # NoErr
                 THEN [@ EXCEPT !.pc = "return", !.err = compile(lk.th[t].code)]
                 ELSE [@ EXCEPT !.pc = "e_lock"]]
    /\ UNCHANGED <<dispatcherVars, managerVars, ecache>>
    /\ LockUnchanged

\* CompileAndCache: e.cache[id] = fn and the deferred Unlock
LCompileStore(t) ==
    /\ lk.th[t].pc = "e_locked"
    /\ lk.th[t].op = "CompileAndCache"
    /\ ecache' = [k \in DOMAIN ecache \cup {lk.th[t].id} |->
                     IF k = lk.th[t].id THEN lk.th[t].code ELSE ecache[k]]
    /\ lk' = [lk EXCEPT !.mu["Engine"].w = "none", !.th[t].pc = "return"]
    /\ UNCHANGED <<dispatcherVars, managerVars>>
    /\ LockUnchanged

\* the call has returned to its caller
LReturn(t) ==
    /\ lk.th[t].pc = "return"
    /\ lk' = [lk EXCEPT !.th[t] = IdleLock]
    /\ UNCHANGED <<dispatcherVars, managerVars, ecache>>
    /\ LockUnchanged

\* every step of a call that is under way
LockStep(t) ==
    \/ LIngestRLock(t)
    \/ LGetBindingsRLock(t)
    \/ LDispatcherRUnlock(t)
    \/ LBindLock(t)
    \/ LBindLocked(t)
    \/ LBindWrite(t)
    \/ LRegisterLock(t)
    \/ LRegisterLocked(t)
    \/ \E written \in BOOLEAN : LRegisterWrite(t, written)
    \/ LManagerRead(t)
    \/ LExecCheck(t)
    \/ LEngineLock(t)
    \/ LEngineLocked(t)
    \/ LExecCompile(t)
    \/ LExecRun(t)
    \/ LClearCache(t)
    \/ LCompile(t)
    \/ LCompileStore(t)
    \/ LReturn(t)

InitLockCalls ==
    /\ InitComponents
    /\ last = NoCall
    /\ calls = 0
    /\ config = [MaxRetries |-> MaxRetries]
    /\ InitEngine
    /\ InitDispatcherLock
    /\ InitWriter
    /\ InitSeeds
    /\ InitLocks
    /\ InitBoot
    /\ InitServer

NextLocks ==
    \/ \E t \in LockThreads, op \in LockOps, id \in LockIDs, code \in LockSources :
          LBegin(t, op, id, code)
    \/ \E t \in LockThreads : LIngestRLock(t)
    \/ \E t \in LockThreads : LGetBindingsRLock(t)
    \/ \E t \in LockThreads : LDispatcherRUnlock(t)
    \/ \E t \in LockThreads : LBindLock(t)
    \/ \E t \in LockThreads : LBindLocked(t)
    \/ \E t \in LockThreads : LBindWrite(t)
    \/ \E t \in LockThreads : LRegisterLock(t)
    \/ \E t \in LockThreads : LRegisterLocked(t)
    \/ \E t \in LockThreads, written \in BOOLEAN : LRegisterWrite(t, written)
    \/ \E t \in LockThreads : LManagerRead(t)
    \/ \E t \in LockThreads : LExecCheck(t)
    \/ \E t \in LockThreads : LEngineLock(t)
    \/ \E t \in LockThreads : LEngineLocked(t)
    \/ \E t \in LockThreads : LExecCompile(t)
    \/ \E t \in LockThreads : LExecRun(t)
    \/ \E t \in LockThreads : LClearCache(t)
    \/ \E t \in LockThreads : LCompile(t)
    \/ \E t \in LockThreads : LCompileStore(t)
    \/ \E t \in LockThreads : LReturn(t)

\* the Go scheduler runs every goroutine that can run, and a sync.RWMutex
\* hands the lock to each waiter in the end (a writer that waits keeps new
\* readers out, a mutex that starves a waiter goes over to handing off in
\* order of arrival)
SpecLocks == InitLockCalls /\ [][NextLocks]_vars
             /\ \A t \in LockThreads : SF_vars(LockStep(t))

-----------------------------------------------------------------------------
(* main from NewParserManager to the end of the two binding loops, a Bind   *)
(* a step.  Both loops range over a Go map, whose iteration order the       *)
(* runtime chooses anew each time: a step takes any entry still to come.    *)

BootIDs == {AutoID(<<1>>), AutoID(<<2>>)}
BootKeys == {HexOf(<<1>>), HexOf(<<2>>), HexOf(<<170>>)}
\* what RegisterParser stored of an answer that names a second signature
\* after the package line, a seed, and a source that declares nothing
BootSources == {sanitizeAiCode(RespTwoSigs), SeedSrc, SrcOK}
BootFiles == UNION {[{FileName(id) : id \in I} -> BootSources] : I \in SUBSET BootIDs}
BootManifests == {NoFile} \cup {ManifestFile(b) : b \in UNION {[K -> BootIDs] : K \in SUBSET BootKeys}}

BootUnchanged ==
    UNCHANGED <<files, manifest, ecache, last, calls, serverVars, config, engineVars,
                dmu, dops, wr, seeds, lk>>

\* mgr.LoadSavedParsers() and parser.NewDispatcher(mgr)
BootLoad ==
    /\ boot.pc = "off"
    /\ cache' = LoadedCache(ReadDir(files, manifest))
    /\ boot' = [boot EXCEPT !.pc = "sources",
                            !.bindings = LoadSavedParsers(ReadDir(files, manifest))]
    /\ UNCHANGED dispatcherVars
    /\ BootUnchanged

\* for name, sigHex := range bindings { dispatcher.Bind(hexToBytes(sigHex), name) }
BootBindSource(name) ==
    /\ boot.pc = "sources"
    /\ name \in DOMAIN boot.bindings
    /\ Bind(hexToBytes(boot.bindings[name]), name)
    /\ boot' = [boot EXCEPT !.bindings = [n \in DOMAIN boot.bindings \ {name} |->
                                            boot.bindings[n]]]
    /\ UNCHANGED cache
    /\ BootUnchanged

\* manifest, err := mgr.LoadManifest()
BootLoadManifest ==
    /\ boot.pc = "sources"
    /\ boot.bindings = <<>>
    /\ boot' = [boot EXCEPT !.pc = "manifest", !.saved = LoadManifest(manifest)]
    /\ UNCHANGED <<dispatcherVars, cache>>
    /\ BootUnchanged

\* for sigHex, name := range manifest { dispatcher.Bind(hexToBytes(sigHex), name) }
BootBindManifest(sigHex) ==
    /\ boot.pc = "manifest"
    /\ sigHex \in DOMAIN boot.saved
    /\ Bind(hexToBytes(sigHex), boot.saved[sigHex])
    /\ boot' = [boot EXCEPT !.saved = [h \in DOMAIN boot.saved \ {sigHex} |->
                                         boot.saved[h]]]
    /\ UNCHANGED cache
    /\ BootUnchanged

\* both loops are through
BootUp ==
    /\ boot.pc = "manifest"
    /\ boot.saved = <<>>
    /\ boot' = Booted
    /\ UNCHANGED <<dispatcherVars, cache>>
    /\ BootUnchanged

InitBootRun ==
    /\ routes = <<>>
    /\ root = [p \in {<<>>} |-> EmptyID]
    /\ bound = <<>>
    /\ cache = <<>>
    /\ files \in BootFiles
    /\ manifest \in BootManifests
    /\ ecache = <<>>
    /\ last = NoCall
    /\ calls = 0
    /\ config = [MaxRetries |-> MaxRetries]
    /\ InitEngine
    /\ InitDispatcherLock
    /\ InitWriter
    /\ InitSeeds
    /\ InitLocks
    /\ boot = [Booted EXCEPT !.pc = "off"]
    /\ InitServer

NextBoot ==
    \/ BootLoad
    \/ \E name \in BootIDs : BootBindSource(name)
    \/ BootLoadManifest
    \/ \E sigHex \in BootKeys : BootBindManifest(sigHex)
    \/ BootUp

SpecBoot == InitBootRun /\ [][NextBoot]_vars

-----------------------------------------------------------------------------
(* The Engine step by step: concurrent ExecuteWithContext calls, each with  *)
(* the worker goroutine it starts and its result channel.                   *)

\* goroutines calling Engine.Execute
Executors == {"e1", "e2"}
\* Execute calls started in one behaviour of SpecEngine
MaxExecs == 3

SrcLoop == <<PackageDynamic, FuncParse, "for {}", "}">>
EngineSources == {SrcOK, SrcIndex, SrcImportOs, SrcLoop}
EngineFrames == {<<1>>, <<1, 170>>}

\* the parser never returns / raises a runtime fault on rawData
Loops(fn) == ParseBody(fn) = "for {}"
Faults(fn, rawData) == ~Loops(fn) /\ call(fn, rawData).err = "PANIC"

IdleExec == [pc |-> "idle", id |-> EmptyID, rawData |-> <<>>, goCode |-> NoSrc,
             fn |-> NoSrc, res |-> "nil", err |-> NoErr, resChan |-> <<>>,
             worker |-> "none", prevErr |-> NoErr, missed |-> FALSE]

ExecsStarted ==
    LET RECURSIVE Sum(_)
        Sum(S) == IF S = {} THEN 0
                  ELSE LET e == CHOOSE x \in S : TRUE
                       IN  (IF execs[e].pc = "idle" THEN 0 ELSE 1) + Sum(S \ {e})
    IN  calls + Sum(Executors)

EngineUnchanged ==
    UNCHANGED <<dispatcherVars, managerVars, last, conns, ops, inflight, hist, config,
                stepVars>>

\* e.Execute(id, rawData, goCode) is called
ExecBegin(e, id, rawData, goCode) ==
    /\ execs[e].pc = "idle"
    /\ ExecsStarted < MaxExecs
    /\ execs' = [execs EXCEPT ![e] =
                   [IdleExec EXCEPT !.pc = "check", !.id = id, !.rawData = rawData,
                                    !.goCode = goCode, !.prevErr = execs[e].prevErr]]
    /\ UNCHANGED <<ecache, emu, calls>>
    /\ EngineUnchanged

\* RLock; fn, exists := e.cache[id]; RUnlock
ExecCheck(e) ==
    /\ execs[e].pc = "check"
    /\ emu = {}
    /\ execs' = [execs EXCEPT ![e] =
                   IF execs[e].id \in DOMAIN ecache
                   THEN [@ EXCEPT !.pc = "spawn", !.fn = ecache[execs[e].id]]
                   ELSE [@ EXCEPT !.pc = "lock", !.missed = TRUE]]
    /\ UNCHANGED <<ecache, emu, calls>>
    /\ EngineUnchanged

\* e.mu.Lock()
ExecLock(e) ==
    /\ execs[e].pc = "lock"
    /\ emu = {}
    /\ emu' = {e}
    /\ execs' = [execs EXCEPT ![e].pc = "locked"]
    /\ UNCHANGED <<ecache, calls>>
    /\ EngineUnchanged

\* the compile step with the Unlock deferred to the end of ExecuteWithContext
ExecCompileKeepsLock(e) ==
    /\ execs[e].pc = "locked"
    /\ LET x == execs[e] IN
       IF x.id \in DOMAIN ecache
       THEN /\ execs' = [execs EXCEPT ![e] = [@ EXCEPT !.pc = "spawn", !.fn = ecache[x.id]]]
            /\ UNCHANGED ecache
       ELSE IF compile(x.goCode) # NoErr
       THEN /\ execs' = [execs EXCEPT ![e] =
                           [@ EXCEPT !.pc = "done", !.err = compile(x.goCode)]]
            /\ UNCHANGED ecache
       ELSE /\ execs' = [execs EXCEPT ![e] = [@ EXCEPT !.pc = "spawn", !.fn = x.goCode]]
            /\ ecache' = [k \in DOMAIN ecache \cup {x.id} |->
                             IF k = x.id THEN x.goCode ELSE ecache[k]]
    /\ UNCHANGED <<emu, calls>>
    /\ EngineUnchanged

\* a compile step without the second look at the cache under the lock
ExecCompileNoDoubleCheck(e) ==
    /\ execs[e].pc = "locked"
    /\ LET x == execs[e] IN
       IF compile(x.goCode) # NoErr
       THEN /\ execs' = [execs EXCEPT ![e] =
                           [@ EXCEPT !.pc = "done", !.err = compile(x.goCode)]]
            /\ UNCHANGED ecache
       ELSE /\ execs' = [execs EXCEPT ![e] = [@ EXCEPT !.pc = "spawn", !.fn = x.goCode]]
            /\ ecache' = [k \in DOMAIN ecache \cup {x.id} |->
                             IF k = x.id THEN x.goCode ELSE ecache[k]]
    /\ emu' = emu \ {e}
    /\ UNCHANGED calls
    /\ EngineUnchanged

\* the double check under the lock, compile, e.cache[id] = fn, and Unlock
ExecCompile(e) ==
    /\ execs[e].pc = "locked"
    /\ LET x == execs[e] IN
       IF x.id \in DOMAIN ecache
       THEN /\ execs' = [execs EXCEPT ![e] = [@ EXCEPT !.pc = "spawn", !.fn = ecache[x.id]]]
            /\ UNCHANGED ecache
       ELSE IF compile(x.goCode) # NoErr
       THEN /\ execs' = [execs EXCEPT ![e] =
                           [@ EXCEPT !.pc = "done", !.err = compile(x.goCode)]]
            /\ UNCHANGED ecache
       ELSE /\ execs' = [execs EXCEPT ![e] = [@ EXCEPT !.pc = "spawn", !.fn = x.goCode]]
            /\ ecache' = [k \in DOMAIN ecache \cup {x.id} |->
                             IF k = x.id THEN x.goCode ELSE ecache[k]]
    /\ emu' = emu \ {e}
    /\ UNCHANGED calls
    /\ EngineUnchanged

\* resChan := make(chan result, 1); go func() {...}()
ExecSpawn(e) ==
    /\ execs[e].pc = "spawn"
    /\ execs' = [execs EXCEPT ![e] = [@ EXCEPT !.pc = "select", !.worker = "running"]]
    /\ UNCHANGED <<ecache, emu, calls>>
    /\ EngineUnchanged

\* a worker on an unbuffered channel: its send waits for the select to receive
WorkerRunUnbuffered(e) ==
    /\ execs[e].worker = "running"
    /\ ~Loops(execs[e].fn)
    /\ execs[e].pc = "select"
    /\ execs' = [execs EXCEPT ![e] =
                   [@ EXCEPT !.worker = "exited",
                             !.resChan = Append(@, call(execs[e].fn, execs[e].rawData))]]
    /\ UNCHANGED <<ecache, emu, calls>>
    /\ EngineUnchanged

\* a worker that does not recover: a fault in the parser ends the process
WorkerRunNoRecover(e) ==
    /\ execs[e].worker = "running"
    /\ ~Loops(execs[e].fn)
    /\ execs' = [execs EXCEPT ![e] =
                   IF Faults(execs[e].fn, execs[e].rawData)
                   THEN [@ EXCEPT !.worker = "crashed"]
                   ELSE [@ EXCEPT !.worker = "exited",
                                  !.resChan = Append(@, call(execs[e].fn, execs[e].rawData))]]
    /\ UNCHANGED <<ecache, emu, calls>>
    /\ EngineUnchanged

\* the worker goroutine: fn(rawData) returns and its result is sent, or it
\* raises a fault and the deferred recover sends the PANIC error; a parser that
\* loops never gets here
WorkerRun(e) ==
    /\ execs[e].worker = "running"
    /\ ~Loops(execs[e].fn)
    /\ Len(execs[e].resChan) < 1
    /\ execs' = [execs EXCEPT ![e] =
                   [@ EXCEPT !.worker = "exited",
                             !.resChan = Append(@, call(execs[e].fn, execs[e].rawData))]]
    /\ UNCHANGED <<ecache, emu, calls>>
    /\ EngineUnchanged

\* select: case r := <-resChan
ExecSelectResult(e) ==
    /\ execs[e].pc = "select"
    /\ execs[e].resChan # <<>>
    /\ execs' = [execs EXCEPT ![e] =
                   [@ EXCEPT !.pc = "done", !.res = Head(execs[e].resChan).res,
                             !.err = Head(execs[e].resChan).err, !.resChan = Tail(@)]]
    /\ UNCHANGED <<ecache, emu, calls>>
    /\ EngineUnchanged

\* select: case <-ctx.Done(), the deadline of Execute has expired
ExecSelectTimeout(e) ==
    /\ execs[e].pc = "select"
    /\ execs' = [execs EXCEPT ![e] = [@ EXCEPT !.pc = "done", !.err = "EXECUTION_TIMEOUT"]]
    /\ UNCHANGED <<ecache, emu, calls>>
    /\ EngineUnchanged

\* Execute has returned to its caller, who may call again
ExecReturn(e) ==
    /\ execs[e].pc = "done"
    /\ execs' = [execs EXCEPT ![e] = [IdleExec EXCEPT !.prevErr = execs[e].err]]
    /\ calls' = calls + 1
    /\ UNCHANGED <<ecache, emu>>
    /\ EngineUnchanged

InitEngineCalls ==
    /\ InitComponents
    /\ last = NoCall
    /\ calls = 0
    /\ config = [MaxRetries |-> MaxRetries]
    /\ emu = {}
    /\ execs = [e \in Executors |-> IdleExec]
    /\ InitDispatcherLock
    /\ InitWriter
    /\ InitSeeds
    /\ InitLocks
    /\ InitBoot
    /\ InitServer

NextEngine ==
    \/ \E e \in Executors, id \in NamedIDs, rawData \in EngineFrames,
          goCode \in EngineSources : ExecBegin(e, id, rawData, goCode)
    \/ \E e \in Executors : ExecCheck(e)
    \/ \E e \in Executors : ExecLock(e)
    \/ \E e \in Executors : ExecCompile(e)
    \/ \E e \in Executors : ExecSpawn(e)
    \/ \E e \in Executors : WorkerRun(e)
    \/ \E e \in Executors : ExecSelectResult(e)
    \/ \E e \in Executors : ExecSelectTimeout(e)
    \/ \E e \in Executors : ExecReturn(e)

SpecEngine == InitEngineCalls /\ [][NextEngine]_vars

-----------------------------------------------------------------------------
(* The Dispatcher step by step: concurrent Bind and Ingest calls, each      *)
(* statement under Dispatcher.mu a step of its own.                         *)

\* goroutines calling Bind and Ingest
DispatchThreads == {"d1", "d2", "d3"}
\* Bind and Ingest calls started in one behaviour of SpecDispatch
MaxDispatchCalls == 3

DispatchSignatures == {<<1>>, <<1, 170>>}
DispatchFrames == {<<>>, <<1>>, <<1, 170>>}

IdleDop == [pc |-> "idle", op |-> "none", signature |-> <<>>, protocolID |-> EmptyID,
            data |-> <<>>, i |-> 0, matched |-> EmptyID, seen |-> <<>>, k |-> 0,
            err |-> NoErr]

DispatchUnchanged ==
    UNCHANGED <<managerVars, last, conns, ops, inflight, config, engineVars, wr, seeds, lk, boot>>

\* d.Bind(signature, protocolID) is called
DBindCall(t, signature, protocolID) ==
    /\ dops[t].pc = "idle"
    /\ calls < MaxDispatchCalls
    /\ calls' = calls + 1
    /\ dops' = [dops EXCEPT ![t] = [IdleDop EXCEPT !.pc = "lock", !.op = "Bind",
                                                   !.signature = signature,
                                                   !.protocolID = protocolID]]
    /\ UNCHANGED <<dispatcherVars, ecache, hist, dmu>>
    /\ DispatchUnchanged

\* a Bind that writes without taking the lock
DBindNoLock(t) ==
    /\ dops[t].pc = "lock"
    /\ dops' = [dops EXCEPT ![t].pc = "routes"]
    /\ UNCHANGED <<dispatcherVars, ecache, hist, calls, dmu>>
    /\ DispatchUnchanged

\* d.mu.Lock()
DBindLock(t) ==
    /\ dops[t].pc = "lock"
    /\ dmu = NoLock
    /\ dmu' = [dmu EXCEPT !.writer = t]
    /\ dops' = [dops EXCEPT ![t].pc = "routes"]
    /\ UNCHANGED <<dispatcherVars, ecache, hist, calls>>
    /\ DispatchUnchanged

\* d.routes[hexSig] = protocolID; curr := d.root
DBindRoutes(t) ==
    /\ dops[t].pc = "routes"
    /\ routes' = BindRoutes(routes, dops[t].signature, dops[t].protocolID)
    /\ dops' = [dops EXCEPT ![t] = [@ EXCEPT !.pc = "insert", !.i = 1]]
    /\ UNCHANGED <<root, bound, ecache, hist, calls, dmu>>
    /\ DispatchUnchanged

\* one turn of the loop over the signature: the child is made when missing
DBindInsert(t) ==
    /\ dops[t].pc = "insert"
    /\ dops[t].i <= Len(dops[t].signature)
    /\ LET p == SubSeq(dops[t].signature, 1, dops[t].i) IN
         root' = [q \in DOMAIN root \cup {p} |->
                    IF q \in DOMAIN root THEN root[q] ELSE EmptyID]
    /\ dops' = [dops EXCEPT ![t].i = @ + 1]
    /\ UNCHANGED <<routes, bound, ecache, hist, calls, dmu>>
    /\ DispatchUnchanged

\* curr.protocolID = protocolID
DBindSetID(t) ==
    /\ dops[t].pc = "insert"
    /\ dops[t].i > Len(dops[t].signature)
    /\ root' = [root EXCEPT ![dops[t].signature] = dops[t].protocolID]
    /\ bound' = [s \in DOMAIN bound \cup {dops[t].signature} |->
                    IF s = dops[t].signature THEN dops[t].protocolID ELSE bound[s]]
    /\ hist' = [hist EXCEPT !.order =
                   Append(@, <<dops[t].signature, dops[t].protocolID>>)]
    /\ dops' = [dops EXCEPT ![t].pc = "unlock"]
    /\ UNCHANGED <<routes, ecache, calls, dmu>>
    /\ DispatchUnchanged

\* the deferred d.mu.Unlock() and the return of Bind
DBindReturn(t) ==
    /\ dops[t].pc = "unlock"
    /\ dmu' = [dmu EXCEPT !.writer = "none"]
    /\ hist' = [hist EXCEPT !.returned = @ + 1]
    /\ dops' = [dops EXCEPT ![t] = IdleDop]
    /\ UNCHANGED <<dispatcherVars, ecache, calls>>
    /\ DispatchUnchanged

\* d.Ingest(data) is called; an empty payload returns at once
DIngestCall(t, data) ==
    /\ dops[t].pc = "idle"
    /\ calls < MaxDispatchCalls
    /\ calls' = calls + 1
    /\ dops' = [dops EXCEPT ![t] =
                  [IdleDop EXCEPT !.pc = IF Len(data) = 0 THEN "done" ELSE "rlock",
                                  !.op = "Ingest", !.data = data,
                                  !.k = hist.returned,
                                  !.err = IF Len(data) = 0 THEN "empty payload" ELSE NoErr]]
    /\ UNCHANGED <<dispatcherVars, ecache, hist, dmu>>
    /\ DispatchUnchanged

\* an Ingest that walks the trie without taking the lock
DIngestNoLock(t) ==
    /\ dops[t].pc = "rlock"
    /\ dops' = [dops EXCEPT ![t] = [@ EXCEPT !.pc = "walk", !.i = 1]]
    /\ UNCHANGED <<dispatcherVars, ecache, hist, calls, dmu>>
    /\ DispatchUnchanged

\* d.mu.RLock(); curr := d.root
DIngestRLock(t) ==
    /\ dops[t].pc = "rlock"
    /\ dmu.writer = "none"
    /\ dmu' = [dmu EXCEPT !.readers = @ \cup {t}]
    /\ dops' = [dops EXCEPT ![t] = [@ EXCEPT !.pc = "walk", !.i = 1]]
    /\ UNCHANGED <<dispatcherVars, ecache, hist, calls>>
    /\ DispatchUnchanged

\* one turn of the loop over data: step to the child and note its protocolID,
\* or break
DIngestWalk(t) ==
    /\ dops[t].pc = "walk"
    /\ LET d == dops[t]
           p == SubSeq(d.data, 1, d.i)
       IN  IF d.i <= Len(d.data) /\ p \in DOMAIN root
           THEN dops' = [dops EXCEPT ![t] =
                           [@ EXCEPT !.i = d.i + 1, !.seen = Append(d.seen, root[p]),
                                     !.matched = IF root[p] # EmptyID THEN root[p]
                                                 ELSE d.matched]]
           ELSE dops' = [dops EXCEPT ![t].pc = "parse"]
    /\ UNCHANGED <<dispatcherVars, ecache, hist, calls, dmu>>
    /\ DispatchUnchanged

\* the unknown-signature error or d.manager.ParseData, then the deferred
\* d.mu.RUnlock() and the return of Ingest
DIngestFinish(t) ==
    /\ dops[t].pc = "parse"
    /\ IF dops[t].matched = EmptyID
       THEN /\ dops' = [dops EXCEPT ![t] =
                          [@ EXCEPT !.pc = "done", !.err = "unknown protocol signature"]]
            /\ UNCHANGED ecache
       ELSE LET r == ParseData(dops[t].matched, dops[t].data) IN
            /\ dops' = [dops EXCEPT ![t] = [@ EXCEPT !.pc = "done", !.err = r.err]]
            /\ ecache' = r.cache
    /\ dmu' = [dmu EXCEPT !.readers = @ \ {t}]
    /\ UNCHANGED <<dispatcherVars, hist, calls>>
    /\ DispatchUnchanged

\* the caller of Ingest goes on
DIngestReturn(t) ==
    /\ dops[t].pc = "done"
    /\ dops' = [dops EXCEPT ![t] = IdleDop]
    /\ UNCHANGED <<dispatcherVars, ecache, hist, calls, dmu>>
    /\ DispatchUnchanged

InitDispatch ==
    /\ InitComponents
    /\ last = NoCall
    /\ calls = 0
    /\ config = [MaxRetries |-> MaxRetries]
    /\ InitEngine
    /\ dmu = NoLock
    /\ dops = [t \in DispatchThreads |-> IdleDop]
    /\ InitWriter
    /\ InitSeeds
    /\ InitLocks
    /\ InitBoot
    /\ InitServer

NextDispatch ==
    \/ \E t \in DispatchThreads, sig \in DispatchSignatures, id \in NamedIDs :
         DBindCall(t, sig, id)
    \/ \E t \in DispatchThreads : DBindLock(t)
    \/ \E t \in DispatchThreads : DBindRoutes(t)
    \/ \E t \in DispatchThreads : DBindInsert(t)
    \/ \E t \in DispatchThreads : DBindSetID(t)
    \/ \E t \in DispatchThreads : DBindReturn(t)
    \/ \E t \in DispatchThreads, data \in DispatchFrames : DIngestCall(t, data)
    \/ \E t \in DispatchThreads : DIngestRLock(t)
    \/ \E t \in DispatchThreads : DIngestWalk(t)
    \/ \E t \in DispatchThreads : DIngestFinish(t)
    \/ \E t \in DispatchThreads : DIngestReturn(t)

SpecDispatch == InitDispatch /\ [][NextDispatch]_vars

-----------------------------------------------------------------------------
(* Properties *)

\* the signatures bound so far that are a prefix of the frame
BoundPrefixes(frame) == {sig \in DOMAIN bound : Len(sig) >= 1 /\ IsPrefix(sig, frame)}
Longest(S) == CHOOSE s \in S : \A t \in S : Len(t) <= Len(s)

\* C1: after any sequence of Bind calls, Ingest of a non-empty frame selects
\* the protocolID bound to the longest bound signature that is a prefix of the
\* frame, never that of a shorter one.
C1_LongestPrefixWins ==
    \A frame \in Frames \ {<<>>} :
        BoundPrefixes(frame) # {} =>
            Ingest(frame).proto = bound[Longest(BoundPrefixes(frame))]

\* an Ingest answered with the longer of two bound prefixes of its frame
C1_Witness ==
    /\ last.op = "Ingest"
    /\ \E s1, s2 \in BoundPrefixes(last.frame) :
         /\ Len(s1) < Len(s2)
         /\ bound[s1] # bound[s2]
         /\ last.id = bound[s2]

\* C2: Ingest returns an error with the empty protocolID exactly when the frame
\* is empty or no bound signature is a prefix of it; when some bound signature
\* matches, the matched non-empty protocolID is returned whether parsing
\* succeeded or failed, also when the Manager has no source for it.
C2_RoutingTuple ==
    \A frame \in Frames :
        LET r == Ingest(frame) IN
        /\ (r.err # NoErr /\ r.proto = EmptyID)
             <=> (frame = <<>> \/ BoundPrefixes(frame) = {})
        /\ BoundPrefixes(frame) # {} =>
             /\ r.proto # EmptyID
             /\ r.proto \in {bound[sig] : sig \in BoundPrefixes(frame)}
             /\ r.proto \notin DOMAIN cache => r.err = "no parser found"

\* an Ingest that matched a protocolID without a registered source, and one
\* whose parser failed
C2_Witness ==
    /\ last.op = "Ingest"
    /\ last.err = "no parser found"
    /\ last.id # EmptyID
    /\ \E frame \in Frames :
         Ingest(frame).err \in {"PANIC", "COMPILE_ERROR"} /\ Ingest(frame).proto # EmptyID

\* C5: after RegisterParser(id, src) returned success, GetParserCode(id) gives
\* src, and an execution for id runs the registered source, not a parser
\* compiled earlier under id.
C5_RegisteredSourceRuns ==
    /\ (last.op = "RegisterParser" /\ last.err = NoErr) =>
         GetParserCode(last.id) = [code |-> last.code, exists |-> TRUE]
    /\ (last.op = "Ingest" /\ last.ran # NoSrc) => last.ran = last.code

\* the operations of one kind under way for a signature
OpsFor(kind, sig) ==
    {t \in Threads : ops[t].kind = kind /\ Active(t) /\ ops[t].sig = sig}

\* C3: under concurrent ingestion of frames with the same unknown signature, at
\* most one discovery per signature is under way at any time, so a frame that
\* arrives for the signature while its discovery is under way starts no second
\* oracle request.
C3_SingleFlightDiscovery ==
    \A sig \in Signatures :
        /\ Cardinality(OpsFor("discover", sig)) <= 1
        /\ OpsFor("discover", sig) # {} => sig \in inflight

\* a frame was dropped for a signature whose discovery is still waiting for the
\* oracle
C3_Witness ==
    \E sig \in hist.dropped :
        \E g \in OpsFor("discover", sig) : ops[g].pc = "call"

\* C4: the gate covers repair too: while a repair for a signature is under way,
\* no second repair (oracle call) for that signature is started.
C4_SingleFlightRepair ==
    \A sig \in Signatures : Cardinality(OpsFor("repair", sig)) <= 1

\* C6: when DiscoverNewProtocol returned success, the ID is auto_proto_0x and the
\* uppercase hex of the authoritative signature, the Manager holds the sanitized
\* source under it, the Dispatcher binds the signature to it, the manifest
\* contains the pair, and an Ingest of the signature's bytes is routed to it.
C6_DiscoveryPostcondition ==
    \A g \in Threads :
        (ops[g].kind = "discover" /\ ops[g].pc = "ok") =>
            LET id == ops[g].protocolID
                hex == HexOf(ops[g].finalSig)
            IN  /\ id = <<"auto_proto_0x">> \o hex
                /\ \A i \in 1..Len(hex) : \E d \in 1..16 : hex[i] = HexDigits[d]
                /\ GetParserCode(id) = [code |-> sanitizeAiCode(ops[g].code), exists |-> TRUE]
                /\ hex \in DOMAIN GetBindings /\ GetBindings[hex] = id
                /\ hex \in DOMAIN LoadManifest(manifest)
                /\ LoadManifest(manifest)[hex] = id
                /\ MatchedProto(ops[g].finalSig) = id

\* C7: a successful RepairParser(protocolID, ...) registers the regenerated
\* source under protocolID, returns protocolID, and leaves the signature bound
\* to protocolID.
C7_RepairKeepsID ==
    \A c \in Threads :
        (ops[c].kind = "repair" /\ ops[c].pc = "ok") =>
            /\ ops[c].protocolID = ops[c].idArg
            /\ GetParserCode(ops[c].idArg).code = sanitizeAiCode(ops[c].code)
            /\ bound[ops[c].finalSig] = ops[c].idArg

\* C8: after RepairParser returned success for a frame whose parser failed, the
\* next Ingest of the same frame executes the regenerated source.
C8_ReingestRunsRepaired ==
    \A c \in Conns :
        (conns[c].pc = "route" /\ conns[c].retried /\ conns[c].fixed # NoSrc) =>
            conns[c].ran = conns[c].fixed

\* no operation has bound anything, and protocolID has the source it had
Untouched(protocolID, code) ==
    hist.committed = {} /\ GetParserCode(protocolID) = [code |-> code, exists |-> TRUE]

\* C9: when RepairParser fails, the operation has bound nothing, the frame's
\* signature is still bound, and (no other operation having bound a signature
\* or replaced the faulty source) the frame again gives an error with the same
\* non-empty protocolID, never an unknown-signature error.
C9_FailedRepairKeepsBinding ==
    \A c \in Threads :
        (ops[c].kind = "repair" /\ ops[c].pc = "failed") =>
            /\ ~ops[c].opBound
            /\ MatchedProto(ops[c].raw) # EmptyID
            /\ Untouched(ops[c].idArg, ops[c].faulty) =>
                 /\ Ingest(ops[c].raw).proto = ops[c].idArg
                 /\ Ingest(ops[c].raw).err \notin {NoErr, "unknown protocol signature"}

\* a repair whose registration failed after the oracle had answered
C9_Witness ==
    \E c \in Conns :
        /\ ops[c].kind = "repair" /\ ops[c].pc = "failed"
        /\ Untouched(ops[c].idArg, ops[c].faulty)
        /\ ops[c].code # NoSrc
        /\ Ingest(ops[c].raw).proto = ops[c].idArg

Quiescent == \A t \in Threads : ~Active(t)

\* C10: whenever no discovery or repair is under way, the manifest holds, for
\* every signature the Coordinator bound, the Dispatcher's current binding, also
\* after two operations ran concurrently (every manifest write having succeeded).
C10_ManifestMatchesBindings ==
    (Quiescent /\ ~hist.saveFailed) =>
        \A hex \in hist.committed :
            /\ hex \in DOMAIN LoadManifest(manifest)
            /\ LoadManifest(manifest)[hex] = GetBindings[hex]

\* C11: a discovery or repair returns success only if its manifest write
\* reached disk: the step by which an operation returns success leaves
\* manifest.json holding the bindings it was given to save.
C11_SuccessOnlyAfterManifestWrite ==
    [][\A t \in Threads :
         (ops[t].pc = "save" /\ ops'[t].pc = "ok") =>
             LoadManifest(manifest') = ops[t].snapshot]_vars

\* C12: once the discovery started for a frame has returned success, the frame
\* matches a binding, so no later Ingest of it gives an unknown-signature error,
\* whatever signature the oracle's response declared.
C12_DiscoveredFrameIsKnown ==
    \A g \in Threads :
        (ops[g].kind = "discover" /\ ops[g].pc = "ok") =>
            MatchedProto(ops[g].raw) # EmptyID

\* C13: a signature the oracle's response declares is the one bound and used
\* for the ID, whatever the caller supplied; when the response declares none and
\* the caller passed no signature, the operation fails and nothing is registered
\* or bound.
C13_AuthoritativeSignature ==
    \A t \in Threads :
        LET declared == SignatureMatch(ops[t].code) IN
        /\ (ops[t].pc \in {"bind", "snapshot", "save", "ok"} /\ declared # <<>>) =>
             /\ ops[t].finalSig = hexToBytes(declared)
             /\ ops[t].protocolID = <<"auto_proto_0x">> \o HexOf(hexToBytes(declared))
             /\ ops[t].opBound => MatchedProto(hexToBytes(declared)) = ops[t].protocolID
        /\ (ops[t].code # NoSrc /\ ops[t].pc # "register"
              /\ declared = <<>> /\ ops[t].sigArg = <<>>) =>
             /\ ops[t].pc = "failed"
             /\ ops[t].protocolID = EmptyID
             /\ ~ops[t].opBound

\* C14: DiscoverNewProtocol and RepairParser end by returning to their caller
\* for every input: no operation ends in a runtime fault.
C14_NoRuntimeFault == \A t \in Threads : ops[t].pc # "fault"

\* the attempts an operation may make under the service's configuration
AttemptsAllowed == IF config.MaxRetries <= 0 THEN 1 ELSE config.MaxRetries

\* C15: an operation calls the oracle at most MaxRetries times (once when
\* MaxRetries <= 0), calls it again only while no call has succeeded, and
\* fails for want of an answer only when every allowed attempt has failed.
C15_RetryDiscipline ==
    \A t \in Threads :
        /\ ops[t].attempts <= AttemptsAllowed
        /\ ops[t].pc = "call" => ops[t].code = NoSrc /\ ops[t].attempts < AttemptsAllowed
        /\ (ops[t].pc = "failed" /\ ops[t].attempts > 0 /\ ops[t].code = NoSrc) =>
             ops[t].attempts = AttemptsAllowed

\* an operation that gave up after its third failed call
C15_Witness ==
    \E t \in Threads :
        /\ ops[t].pc = "failed" /\ ops[t].code = NoSrc
        /\ ops[t].attempts = 3 /\ config.MaxRetries = 3

\* the source imports a package outside the Engine's allow-list
ImportsDisallowed(src) ==
    \E i \in 1..Len(src) : src[i] \in Imports \ AllowedImports

\* C16: for a source that imports a disallowed package and any cache key, also
\* one that already has a compiled entry, Execute returns a compile error and
\* runs no parser.
C16_DisallowedImportNeverRuns ==
    (last.op = "Ingest" /\ ImportsDisallowed(last.code)) =>
        last.err = "COMPILE_ERROR" /\ last.ran = NoSrc

\* C17: a call whose parser never returns ends with EXECUTION_TIMEOUT and
\* nothing else; no call holds the Engine lock while its parser runs; the
\* timeout changes neither the compiled cache nor the lock; and every call that
\* ends otherwise returns the result of the parser cached under its own key.
C17_TimeoutIsolated ==
    /\ [](\A e \in Executors :
            /\ execs[e].worker = "running" => e \notin emu
            /\ (execs[e].pc = "done" /\ execs[e].fn # NoSrc /\ Loops(execs[e].fn)) =>
                   execs[e].err = "EXECUTION_TIMEOUT" /\ execs[e].res = "nil"
            /\ (execs[e].pc = "done" /\ execs[e].fn # NoSrc
                   /\ execs[e].err # "EXECUTION_TIMEOUT") =>
                   /\ execs[e].id \in DOMAIN ecache
                   /\ ecache[execs[e].id] = execs[e].fn
                   /\ [res |-> execs[e].res, err |-> execs[e].err] =
                          call(execs[e].fn, execs[e].rawData))
    /\ [][\A e \in Executors :
            (execs[e].pc = "select" /\ execs'[e].pc = "done"
               /\ execs'[e].err = "EXECUTION_TIMEOUT") =>
                (ecache' = ecache /\ emu' = emu)]_vars

\* a call has timed out on a looping parser that is still running, and a call
\* for another key has completed with its result meanwhile
C17_Witness ==
    \E e, f \in Executors :
        /\ execs[e].pc = "done" /\ execs[e].worker = "running" /\ Loops(execs[e].fn)
        /\ execs[e].err = "EXECUTION_TIMEOUT"
        /\ execs[f].pc = "done" /\ execs[f].id # execs[e].id
        /\ execs[f].err = NoErr /\ execs[f].res = "map"

\* C18: a runtime fault inside a parser never ends the process: the worker
\* recovers and leaves the PANIC error on the result channel; a call that takes
\* its result from the channel returns that PANIC error with no result (only an
\* expired deadline returns anything else, EXECUTION_TIMEOUT); and no call
\* leaves the Engine locked behind it.
C18_PanicRecovered ==
    /\ emu \subseteq {e \in Executors : execs[e].pc = "locked"}
    /\ \A e \in Executors :
         /\ execs[e].worker # "crashed"
         /\ (execs[e].worker = "exited" /\ Faults(execs[e].fn, execs[e].rawData)) =>
                \/ execs[e].resChan = <<[res |-> "nil", err |-> "PANIC"]>>
                \/ execs[e].pc = "done" /\ execs[e].resChan = <<>>
         /\ (execs[e].pc = "done" /\ execs[e].fn # NoSrc
                /\ Faults(execs[e].fn, execs[e].rawData)) =>
                /\ execs[e].res = "nil"
                /\ execs[e].err \in {"PANIC", "EXECUTION_TIMEOUT"}
                /\ (execs[e].worker = "exited" /\ execs[e].resChan = <<>>) =>
                       execs[e].err = "PANIC"

\* a caller whose previous call returned PANIC has been served a result since
C18_Witness ==
    \E e \in Executors :
        /\ execs[e].prevErr = "PANIC"
        /\ execs[e].pc = "done" /\ execs[e].err = NoErr /\ execs[e].res = "map"

DeclaresHex(src, hex) ==
    /\ hex # <<>>
    /\ \A j \in 1..Len(hex) : IsHexDigit(hex[j])
    /\ \E i \in 1..Len(src) :
         /\ src[i] = SignatureComment
         /\ i + Len(hex) <= Len(src)
         /\ SubSeq(src, i + 1, i + Len(hex)) = hex
         /\ (i + Len(hex) < Len(src)) => ~IsHexDigit(src[i + Len(hex) + 1])

Declarations(src) ==
    {hex \in {SubSeq(src, a, b) : a, b \in 1..Len(src)} : DeclaresHex(src, hex)}

Restarted(f, m) == Startup([files |-> f, manifest |-> m])

\* C21: when a discovery or repair returns success and no other is under way,
\* every binding then in the Dispatcher is found, with the same protocolID, in
\* the Dispatcher that a restart builds from LoadSavedParsers and LoadManifest.
C21_BindingsSurviveRestart ==
    [][\A t \in Threads :
         (ops[t].pc = "save" /\ ops'[t].pc = "ok"
            /\ \A u \in Threads \ {t} : ~Active(u)) =>
             \A hex \in DOMAIN routes' :
                 /\ hex \in DOMAIN Restarted(files', manifest').routes
                 /\ Restarted(files', manifest').routes[hex] = routes'[hex]]_vars

\* the protocolID at the trie node of the signature s
NodeID(trie, s) == IF s \in DOMAIN trie THEN trie[s] ELSE EmptyID

\* C22: after Bind(sig, id) both GetBindings and Ingest resolve sig to id,
\* whatever sig was bound to before; the binding of every other signature is as
\* before; a second Bind(sig, id) would change nothing, and a Bind that repeats
\* the binding already there leaves the Dispatcher as it was.
C22_BindIdempotentOverwrites ==
    [][(last'.op = "Bind" /\ calls' = calls + 1) =>
         LET sig == last'.frame
             id == last'.id
         IN  /\ GetBindings' = [h \in DOMAIN routes \cup {HexOf(sig)} |->
                                  IF h = HexOf(sig) THEN id ELSE routes[h]]
             /\ Walk(root', sig, 1, EmptyID) = id
             /\ \A s \in Signatures \ {sig} : NodeID(root', s) = NodeID(root, s)
             /\ BindRoutes(routes', sig, id) = routes'
             /\ BindTrie(root', sig, id) = root'
             /\ last'.prev = id => (routes' = routes /\ root' = root)]_vars

\* a Bind has replaced the protocolID of a signature while another signature,
\* an extension of it, is bound
C22_Witness ==
    /\ last.op = "Bind"
    /\ last.prev \notin {EmptyID, last.id}
    /\ \E h \in DOMAIN GetBindings :
         Len(h) > Len(HexOf(last.frame)) /\ GetBindings[h] # last.id

\* the trie after the Binds of the sequence bs, made one after the other
RECURSIVE TrieAfter(_)
TrieAfter(bs) ==
    IF bs = <<>> THEN [p \in {<<>>} |-> EmptyID]
    ELSE BindTrie(TrieAfter(SubSeq(bs, 1, Len(bs) - 1)), bs[Len(bs)][1], bs[Len(bs)][2])

\* the protocolIDs at the nodes a walk of trie over data visits
RECURSIVE SeenIn(_, _, _)
SeenIn(trie, data, i) ==
    IF i > Len(data) \/ SubSeq(data, 1, i) \notin DOMAIN trie THEN <<>>
    ELSE <<trie[SubSeq(data, 1, i)]>> \o SeenIn(trie, data, i + 1)

\* C23: what a finished Ingest saw at the trie nodes, and the protocolID it
\* matched, is what the trie held after some whole number of Bind calls, all
\* the Binds that had returned when the Ingest started among them: no Bind
\* that returned is missed and no Bind is seen in part.
C23_ReadAfterWrite ==
    \A t \in DispatchThreads :
        (dops[t].op = "Ingest" /\ dops[t].pc = "done" /\ dops[t].data # <<>>) =>
            \E j \in dops[t].k..Len(hist.order) :
                LET trie == TrieAfter(SubSeq(hist.order, 1, j)) IN
                /\ dops[t].seen = SeenIn(trie, dops[t].data, 1)
                /\ dops[t].matched = Walk(trie, dops[t].data, 1, EmptyID)

\* an Ingest that started after a Bind had returned has matched over two
\* nodes, and another Bind wrote the trie before the Ingest ended
C23_Witness ==
    \E t \in DispatchThreads :
        /\ dops[t].op = "Ingest" /\ dops[t].pc = "done"
        /\ dops[t].k >= 1
        /\ Len(dops[t].seen) = 2
        /\ dops[t].matched # EmptyID
        /\ Len(hist.order) > dops[t].k

(* C24: in every reachable state no protocolID is bound to more than one    *)
(* signature, and every bound signature carries one protocolID, the same in *)
(* the routes map and in the trie                                            *)
C24_BindingsOneToOne ==
    /\ \A s \in DOMAIN bound :
         /\ HexOf(s) \in DOMAIN routes
         /\ routes[HexOf(s)] = bound[s]
         /\ NodeID(root, s) = bound[s]
    /\ \A h1, h2 \in DOMAIN routes : routes[h1] = routes[h2] => h1 = h2


(* C25: when the write of RegisterParser fails, the call returns an error,  *)
(* GetParserCode gives for every protocolID what it gave before, and the    *)
(* discovery or repair that made the call adds no binding and no manifest   *)
(* entry before it returns its error                                         *)
C25_FailedWriteChangesNothing ==
    [][\A m \in Callers :
         /\ (/\ ops[m].pc = "register"
             /\ Len(FinalSig(ops[m].code, ops[m].sig)) > 0
             /\ ops'[m].pc = "failed")
            => /\ \A id \in DOMAIN cache \cup DOMAIN cache' \cup {ops'[m].protocolID} :
                    GetParserCode(id)' = GetParserCode(id)
               /\ GetBindings' = GetBindings
               /\ root' = root
               /\ manifest' = manifest
         /\ ops[m].pc = "failed"
            => /\ cache' = cache
               /\ GetBindings' = GetBindings
               /\ root' = root
               /\ manifest' = manifest
               /\ ops'[m].pc = "idle"
               /\ last'.err # NoErr
               /\ last'.id = EmptyID]_vars
\* a failed write for a protocolID whose earlier source is still served
C25_Witness ==
    \E m \in Callers :
        /\ ops[m].pc = "failed"
        /\ ops[m].protocolID # EmptyID
        /\ GetParserCode(ops[m].protocolID).exists
        /\ GetParserCode(ops[m].protocolID).code # sanitizeAiCode(ops[m].code)

(* C26: when the process ends at any point of RegisterParser, the file at  *)
(* the final path holds the whole content it had before the call (or is     *)
(* absent as before), or the whole new source, never a part of it           *)
C26_CrashLeavesWholeFile ==
    wr.pc = "crashed" =>
        \/ FileAt(FileName(wr.id)) = wr.prev
        \/ FileAt(FileName(wr.id)) = [exists |-> TRUE, data |-> wr.code]

(* C27: a signature is marked in flight only while its discovery goroutine *)
(* has not ended; when the goroutine ends, after a success or after a       *)
(* failure, the mark is removed and StartDiscovery would answer true again  *)
C27_TicketDestroyedOnCompletion ==
    /\ [](\A sig \in inflight :
            \E g \in Workers :
                ops[g].pc # "idle" /\ ops[g].kind = "discover" /\ ops[g].sig = sig)
    /\ [][\A g \in Workers :
            (Returned(g) /\ ops'[g].pc = "idle") =>
                /\ ops[g].sig \notin inflight'
                /\ StartDiscovery(ops[g].sig)']_vars
\* a second discovery is under way for a signature whose first discovery ended
C27_Witness ==
    \E g \in Workers :
        /\ Active(g)
        /\ ops[g].kind = "discover"
        /\ ops[g].sig \in hist.ended
        /\ ops[g].sig \in inflight

(* C28: under concurrent first-use Execute calls for one cache key, a      *)
(* callable is compiled and stored for the key at most once (only while the *)
(* key has no entry, and the entry is never replaced), and every caller     *)
(* that runs a parser runs the callable stored under the key                *)
C28_CompiledOncePerKey ==
    /\ [](\A e \in Executors :
            execs[e].pc \in {"spawn", "select"} =>
                /\ execs[e].id \in DOMAIN ecache
                /\ execs[e].fn = ecache[execs[e].id])
    /\ [][/\ \A k \in DOMAIN ecache : k \in DOMAIN ecache' /\ ecache'[k] = ecache[k]
          /\ \A e \in Executors :
               (execs[e].pc = "locked" /\ execs'[e].pc = "spawn"
                    /\ execs[e].id \in DOMAIN ecache)
                   => execs'[e].fn = ecache[execs[e].id]]_vars
\* two callers missed the cache for the same key; one compiled, the other found
\* the entry under the lock and runs the first one's callable, not its own source
C28_Witness ==
    \E e1, e2 \in Executors :
        /\ e1 # e2
        /\ execs[e1].id = execs[e2].id
        /\ execs[e1].missed /\ execs[e2].missed
        /\ execs[e1].pc = "select" /\ execs[e2].pc = "select"
        /\ execs[e1].fn = execs[e1].goCode
        /\ execs[e2].fn = execs[e1].goCode
        /\ execs[e2].goCode # execs[e1].goCode

(* C29: SeedParsers never overwrites: after it ran, every file the storage  *)
(* held before has the content it had, every seed file whose name the       *)
(* storage did not hold is there with the seed's content, and a second run  *)
(* changes nothing                                                           *)
C29_SeedNeverOverwrites ==
    [][(last'.op = "SeedParsers" /\ calls' = calls + 1) =>
          /\ \A n \in DOMAIN files : n \in DOMAIN files' /\ files'[n] = files[n]
          /\ seeds.exists =>
               \A n \in DOMAIN seeds.entries \ DOMAIN files :
                   n \in DOMAIN files' /\ files'[n] = seeds.entries[n]
          /\ \A unread, unopened, cut \in SUBSET SeedNames :
               SeedParsers(files', seeds, unread, unopened, cut) = files']_vars
\* the part that holds whatever fails: the files the storage held are as before
C29_KeepsStoredFiles ==
    [][(last'.op = "SeedParsers" /\ calls' = calls + 1) =>
          \A n \in DOMAIN files : n \in DOMAIN files' /\ files'[n] = files[n]]_vars

\* the functions named Parse that a source defines
ParseDefinitions(src) == IndexesOf(FuncParse, src)

(* C30: every source the Manager holds, the sanitized oracle answers among  *)
(* them, defines exactly one function named Parse                            *)
C30_OneParseFunction ==
    \A id \in DOMAIN cache : Cardinality(ParseDefinitions(cache[id])) = 1

\* the goroutines that start an operation in this step
Started == {t \in Threads : ops[t].pc = "idle" /\ ops'[t].pc # "idle"}

C32_StoredSourceDeclaresSignature ==
    \A m \in Callers :
        (/\ ops[m].pc \in {"snapshot", "save", "ok"}
         /\ SignatureMatch(ops[m].code) # <<>>)
        => /\ GetParserCode(ops[m].protocolID).exists
           /\ SignatureMatch(GetParserCode(ops[m].protocolID).code) # <<>>
           /\ hexToBytes(SignatureMatch(GetParserCode(ops[m].protocolID).code))
                = ops[m].finalSig

(* C33: after the same Bind calls the trie Ingest and the map-scan Ingest  *)
(* select the same protocolID, or both report an error, for every frame     *)
C33_DispatchersEquivalent ==
    /\ \A data \in EquivFrames : IngestTrie(data) = IngestScan(routes, data)
    /\ last.op = "Ingest" => last.id = last.prev
\* the same when no binding carries the empty protocolID
C33_EquivalentWithoutEmptyID ==
    (\A h \in DOMAIN routes : routes[h] # EmptyID) =>
        \A data \in EquivFrames : IngestTrie(data) = IngestScan(routes, data)

\* routes and the trie hold the same bindings
RoutesAgreeWithTrie ==
    /\ \A h \in DOMAIN routes : NodeID(root, hexToBytes(h)) = routes[h]
    /\ \A s \in DOMAIN root :
         root[s] # EmptyID => HexOf(s) \in DOMAIN routes /\ routes[HexOf(s)] = root[s]

(* C34: in every state a reader of the Dispatcher can see (no Bind holds    *)
(* the lock), a hex key maps to protocolID p in routes exactly when the     *)
(* trie node of its bytes carries p, and Ingest of a bound signature's      *)
(* bytes matches the protocolID GetBindings lists for it                    *)
C34_RoutesAndTrieAgree ==
    dmu.writer = "none" =>
        /\ RoutesAgreeWithTrie
        /\ \A h \in DOMAIN GetBindings :
             Walk(root, hexToBytes(h), 1, EmptyID) = GetBindings[h]
\* an Ingest holds the read lock after a signature was bound and bound again to
\* another protocolID
C34_Witness ==
    /\ dmu.writer = "none"
    /\ dmu.readers # {}
    /\ Len(hist.order) = 2
    /\ hist.order[1][1] = hist.order[2][1]
    /\ hist.order[1][2] # hist.order[2][2]
    /\ routes[HexOf(hist.order[2][1])] = hist.order[2][2]

\* the protocolIDs of the bindings made by a discovery or repair
CoordinatorBound == {routes[h] : h \in hist.committed \cap DOMAIN routes}

(* C35: every protocolID a discovery or repair has bound has a source in    *)
(* the Manager from the step that binds it on, and no Ingest that matched   *)
(* such a binding got the no-parser-found error                             *)
C35_RegisteredBeforeBound ==
    /\ \A id \in CoordinatorBound : GetParserCode(id).exists
    /\ \A c \in Conns :
         (conns[c].pc = "route" /\ conns[c].proto \in CoordinatorBound)
            => conns[c].err # "no parser found"
\* an Ingest matched a binding made during this run and ran its parser while the
\* operation that made it has not returned yet
C35_Witness ==
    \E c \in Conns, g \in Workers :
        /\ conns[c].pc = "route"
        /\ conns[c].proto = AutoID(<<170>>)
        /\ conns[c].err = NoErr
        /\ ops[g].pc \in {"snapshot", "save"}
        /\ ops[g].protocolID = conns[c].proto
        /\ HexOf(ops[g].finalSig) \in hist.committed

\* f and g are the same map except, at most, at the key k
SameExceptAt(f, g, k) ==
    /\ DOMAIN f \subseteq DOMAIN g
    /\ DOMAIN g \subseteq DOMAIN f \cup {k}
    /\ \A x \in DOMAIN f \ {k} : g[x] = f[x]

(* C36: of the steps of one discovery or repair, only the registration      *)
(* changes sources, and only the one of the operation's protocolID; only    *)
(* the Bind changes bindings, and only the one of the authoritative         *)
(* signature; an operation whose oracle attempts all fail, or whose         *)
(* registration fails, changes no source, binding or manifest entry         *)
C36_OneBindingOneSource ==
    [][\A m \in Callers :
         /\ ops[m].pc = "register" =>
              /\ SameExceptAt(cache, cache', ops'[m].protocolID)
              /\ SameExceptAt(files, files', FileName(ops'[m].protocolID))
              /\ routes' = routes /\ root' = root /\ manifest' = manifest
              /\ ops'[m].pc = "failed" => (cache' = cache /\ files' = files)
         /\ ops[m].pc = "bind" =>
              /\ SameExceptAt(routes, routes', HexOf(ops[m].finalSig))
              /\ \A s \in DOMAIN root \ {ops[m].finalSig} :
                   s \in DOMAIN root' /\ root'[s] = root[s]
              /\ \A s \in DOMAIN root' \ (DOMAIN root \cup {ops[m].finalSig}) :
                   root'[s] = EmptyID
              /\ routes'[HexOf(ops[m].finalSig)] = ops[m].protocolID
              /\ cache' = cache /\ files' = files /\ manifest' = manifest
         /\ ops[m].pc \in {"snapshot", "save"} =>
              /\ routes' = routes /\ root' = root /\ cache' = cache /\ files' = files
         /\ ops[m].pc \in {"bind", "snapshot", "save"} =>
              /\ ops'[m].finalSig = ops[m].finalSig
              /\ ops'[m].protocolID = ops[m].protocolID
         /\ ops[m].pc \in {"idle", "call", "failed", "ok"} =>
              /\ routes' = routes /\ root' = root /\ cache' = cache /\ files' = files
              /\ manifest' = manifest]_vars
\* a successful operation next to another binding and another source, both as
\* the storage had them at the start
C36_Witness ==
    \E m \in Callers :
        /\ ops[m].pc = "ok"
        /\ ops[m].sig # ops[m].finalSig
        /\ \E h \in DOMAIN routes :
             h # HexOf(ops[m].finalSig) /\ routes[h] # ops[m].protocolID
        /\ \E k \in DOMAIN cache : k # ops[m].protocolID

\* the locks a goroutine holds, the lock it is about to take or waits for
Holds(t) == {m \in Mutexes : lk.mu[m].w = t \/ t \in lk.mu[m].r}
Wants(t) ==
    CASE lk.th[t].pc \in {"d_rlock", "d_lock", "d_wait"} -> {"Dispatcher"}
      [] lk.th[t].pc \in {"m_rlock", "m_lock", "m_wait"} -> {"Manager"}
      [] lk.th[t].pc \in {"e_rlock", "e_lock", "e_wait"} -> {"Engine"}
      [] OTHER -> {}
LockRank == [Dispatcher |-> 1, Manager |-> 2, Engine |-> 3]
\* the goroutine is under way and cannot take its next step
Blocked(t) ==
    \/ lk.th[t].pc \in {"d_rlock", "m_rlock", "e_rlock"}
         /\ \E m \in Wants(t) : ~CanRLock(m)
    \/ lk.th[t].pc \in {"d_wait", "m_wait", "e_wait"}
         /\ \E m \in Wants(t) : ~CanLock(m, t)
LocksInOrder ==
    \A t \in LockThreads : \A h \in Holds(t), w \in Wants(t) : LockRank[h] < LockRank[w]
NoDeadlock ==
    (\E t \in LockThreads : lk.th[t].pc # "idle")
        => \E t \in LockThreads : lk.th[t].pc # "idle" /\ ~Blocked(t)
ReturnedHoldsNothing ==
    \A t \in LockThreads :
        lk.th[t].pc \in {"idle", "return"}
            => Holds(t) = {} /\ \A m \in Mutexes : t \notin lk.mu[m].q

(* C37: a goroutine takes a lock only while it holds none that comes later  *)
(* in the order Dispatcher, Manager, Engine; while a call is under way some *)
(* goroutine can take a step; a call that has returned holds no lock and    *)
(* waits for none; and every call returns                                   *)
C37_NoDeadlock ==
    /\ [](LocksInOrder /\ NoDeadlock /\ ReturnedHoldsNothing)
    /\ \A t \in LockThreads : (lk.th[t].pc # "idle") ~> (lk.th[t].pc = "idle")
\* an Ingest inside the Engine's lock with the Dispatcher's read lock held,
\* and a Bind that waits for it to leave the Dispatcher
C37_Witness ==
    \E t, u \in LockThreads :
        /\ lk.th[t].op = "Ingest" /\ lk.th[t].pc = "e_locked"
        /\ Holds(t) = {"Dispatcher", "Engine"}
        /\ lk.th[u].op = "Bind" /\ lk.th[u].pc = "d_wait" /\ Blocked(u)

\* the goroutine is the one whose compilation fails in this step
CompileFails(t) ==
    /\ lk'.th[t] # lk.th[t]
    /\ compile(lk.th[t].code) # NoErr
    /\ \/ lk.th[t].pc = "compile"
       \/ /\ lk.th[t].pc = "e_locked"
          /\ lk.th[t].op \in {"Ingest", "Execute"}
          /\ lk.th[t].id \notin DOMAIN ecache

(* C38: the step in which Execute or CompileAndCache gets an error from     *)
(* compile leaves the compiled cache as it was, returns that error, and     *)
(* leaves the goroutine without the Engine's lock                           *)
C38_FailedCompileKeepsCache ==
    [][\A t \in LockThreads :
         CompileFails(t) =>
           /\ ecache' = ecache
           /\ lk'.th[t].err = compile(lk.th[t].code)
           /\ lk'.th[t].pc \in {"return", "d_runlock"}
           /\ lk'.mu["Engine"].w # t
           /\ t \notin lk'.mu["Engine"].q]_vars
\* a CompileAndCache that got COMPILE_ERROR for a key with an earlier entry
C38_Witness ==
    \E t \in LockThreads :
        /\ lk.th[t].op = "CompileAndCache" /\ lk.th[t].pc = "return"
        /\ lk.th[t].err = "COMPILE_ERROR"
        /\ lk.th[t].id \in DOMAIN ecache
        /\ lk.mu["Engine"] = FreeMutex
\* an Execute that got the entry-point error for a key without an entry
C38_ExecuteCase ==
    \E t \in LockThreads :
        /\ lk.th[t].op = "Execute" /\ lk.th[t].pc = "return"
        /\ lk.th[t].err = "RECOVERY_ERROR"
        /\ lk.th[t].id \notin DOMAIN ecache

\* the signatures that more than one stored source declares
DeclaredTwice ==
    LET loaded == LoadSavedParsers(ReadDir(files, manifest)) IN
    {hexToBytes(loaded[id]) : id \in
        {i \in DOMAIN loaded : \E j \in DOMAIN loaded \ {i} :
             hexToBytes(loaded[j]) = hexToBytes(loaded[i])}}

(* C39: when main has bound the source-declared signatures and then the     *)
(* manifest entries, the Dispatcher is the one value that the storage       *)
(* contents determine, whichever entry each loop took first, and every      *)
(* manifest entry is bound as the manifest has it                           *)
C39_StartupIsFunctionOfStorage ==
    boot.pc = "up" =>
        LET d == Startup([files |-> files, manifest |-> manifest])
            saved == LoadManifest(manifest)
        IN  /\ routes = d.routes
            /\ root = d.root
            /\ \A h \in DOMAIN saved : routes[HexOf(hexToBytes(h))] = saved[h]
\* the same, for a storage in which no signature that two sources declare is
\* left without a manifest entry
C39_FunctionWhenManifestCovers ==
    (boot.pc = "up" /\ \A s \in DeclaredTwice : HexOf(s) \in DOMAIN LoadManifest(manifest)) =>
        LET d == Startup([files |-> files, manifest |-> manifest]) IN
        routes = d.routes /\ root = d.root

(* C40: the result channel of a call never holds more than one message, the *)
(* result or the PANIC error; a worker that has not sent finds the channel  *)
(* empty, and when its parser returns or faults its send goes through and   *)
(* the goroutine ends, also after the call has returned EXECUTION_TIMEOUT   *)
C40_WorkerSendsOnceAndEnds ==
    \A e \in DOMAIN execs :
        /\ Len(execs[e].resChan) <= 1
        /\ execs[e].worker = "running" => execs[e].resChan = <<>>
        /\ execs[e].resChan # <<>> =>
             /\ execs[e].worker = "exited"
             /\ Head(execs[e].resChan) = call(execs[e].fn, execs[e].rawData)
        /\ (execs[e].worker = "running" /\ ~Loops(execs[e].fn)) => ENABLED WorkerRun(e)
\* a call that returned EXECUTION_TIMEOUT while its parser was still running;
\* the parser then faulted, the PANIC message went into the channel and the
\* goroutine ended
C40_Witness ==
    \E e \in DOMAIN execs :
        /\ execs[e].pc = "done"
        /\ execs[e].err = "EXECUTION_TIMEOUT"
        /\ execs[e].worker = "exited"
        /\ Len(execs[e].resChan) = 1
        /\ Head(execs[e].resChan).err = "PANIC"

====
